---- MODULE Spec2Model ----
(***************************************************************************)
(* octodns-hetzner: the provider orchestrator (octodns_hetzner/__init__.py), *)
(* the two apply strategies (strategies.py) and the RRSet adapter           *)
(* (hcloud_adapter.py).                                                     *)
(*                                                                          *)
(* Spec        the provider: populate / zone_records / apply against the    *)
(*             client interface; every client call is logged in `calls`.    *)
(* SpecAdapter the RRSet adapter acting on the RRSets of one zone.          *)
(*                                                                          *)
(* Text values are sequences of one-character strings, so that escaping is  *)
(* computed, not assumed.  A TTL of 0 stands for Python's None / a missing  *)
(* 'ttl' key.                                                               *)
(***************************************************************************)
EXTENDS Integers, Sequences, FiniteSets, TLC

VARIABLES
    _backend,          \* HetznerProvider._backend
    _client,           \* HetznerProvider._client: the class of the client ("none": not built)
    _strategy,         \* HetznerProvider._strategy: the class of the strategy ("none": not built)
    _zone_records,     \* HetznerProvider._zone_records   : zone name -> flat records
    _zone_metadata,    \* HetznerProvider._zone_metadata  : zone id   -> zone dict
    _zone_name_to_id,  \* HetznerProvider._zone_name_to_id: zone name -> zone id
    remote,           \* what the client's read calls answer, per zone name
    fault,            \* the client call that raises, and the exception it raises
    calls,            \* the client calls issued by the last provider operation
    last,             \* the last provider operation, its arguments and result
    zstate,           \* adapter: "absent" | "pending" (created, not yet readable) | "visible"
    zttl,             \* adapter: the zone's default TTL (0: none)
    rrsets,           \* adapter: the zone's RRSets as the hcloud client holds them
    caps,             \* adapter: which call paths the hcloud objects offer
    alast,            \* adapter: the last adapter operation, its arguments and result
    paging,           \* HetznerClient.domains: the position of its page loop and its locals
    race,             \* two interleaved rrset_upsert calls: what each has done and found
    http              \* HetznerClient: the records the API holds and the last request made

pvars ==
    <<_backend, _client, _strategy, _zone_records, _zone_metadata, _zone_name_to_id, remote,
      fault, calls, last>>
avars == <<zstate, zttl, rrsets, caps, alast>>
cvars == <<paging, race, http>>
vars == <<_backend, _client, _strategy, _zone_records, _zone_metadata, _zone_name_to_id,
          remote, fault, calls, last,
          zstate, zttl, rrsets, caps, alast, paging, race, http>>

(***************************************************************************)
(* Bounds                                                                   *)
(***************************************************************************)
MaxChanges == 2     \* changes in one plan
MaxRRSets == 2      \* RRSets one zone may hold

DEFAULT_TTL == 3600

(***************************************************************************)
(* Text helpers                                                             *)
(***************************************************************************)
RECURSIVE unescape_semicolon(_)
\* str.replace('\;', ';'): the occurrences of '\;' never overlap, so the text is
\* rewritten half by half, cut where no occurrence is split
unescape_semicolon(s) ==
    IF Len(s) <= 1 THEN s
    ELSE IF Len(s) = 2 THEN (IF s[1] = "\\" /\ s[2] = ";" THEN <<";">> ELSE s)
    ELSE LET mid == Len(s) \div 2
             cut == IF s[mid] = "\\" /\ s[mid + 1] = ";" THEN mid + 1 ELSE mid
         IN unescape_semicolon(SubSeq(s, 1, cut))
            \o unescape_semicolon(SubSeq(s, cut + 1, Len(s)))

RECURSIVE escape_semicolon(_)
\* str.replace(';', '\;'), half by half
escape_semicolon(s) ==
    IF Len(s) = 0 THEN <<>>
    ELSE IF Len(s) = 1 THEN (IF s[1] = ";" THEN <<"\\", ";">> ELSE s)
    ELSE LET mid == Len(s) \div 2
         IN escape_semicolon(SubSeq(s, 1, mid)) \o escape_semicolon(SubSeq(s, mid + 1, Len(s)))

\* zone_name[:-1] / desired.name[:-1]
StripDot(zn) == SubSeq(zn, 1, Len(zn) - 1)

Put(m, k, v) == [x \in (DOMAIN m) \cup {k} |-> IF x = k THEN v ELSE m[x]]
Drop(m, k) == [x \in (DOMAIN m) \ {k} |-> m[x]]

RECURSIVE Concat(_)
Concat(ss) == IF Len(ss) = 0 THEN <<>> ELSE Head(ss) \o Concat(Tail(ss))

(***************************************************************************)
(* Python text operations the codec uses                                    *)
(***************************************************************************)
\* the characters str.strip() takes off
Whitespace == {" ", "\t", "\n", "\r"}

RECURSIVE lstrip(_)
lstrip(s) == IF Len(s) > 0 /\ s[1] \in Whitespace THEN lstrip(Tail(s)) ELSE s

RECURSIVE rstrip(_)
rstrip(s) ==
    IF Len(s) > 0 /\ s[Len(s)] \in Whitespace THEN rstrip(SubSeq(s, 1, Len(s) - 1)) ELSE s

\* str.strip()
strip(s) == rstrip(lstrip(s))

RECURSIVE split_from(_, _, _)
split_from(s, cur, out) ==
    IF Len(s) = 0 THEN Append(out, cur)
    ELSE IF s[1] = " " THEN split_from(Tail(s), <<>>, Append(out, cur))
    ELSE split_from(Tail(s), Append(cur, s[1]), out)

\* str.split(' '): one field per single space, empty fields kept
split_space(s) == split_from(s, <<>>, <<>>)

Digits == <<"0", "1", "2", "3", "4", "5", "6", "7", "8", "9">>
DigitChars == {"0", "1", "2", "3", "4", "5", "6", "7", "8", "9"}
DigitValue(c) == CHOOSE n \in 0..9 : Digits[n + 1] = c

\* int(text) succeeds: an optional sign and decimal digits
int_ok(s) ==
    LET body == IF Len(s) > 0 /\ s[1] \in {"+", "-"} THEN Tail(s) ELSE s
    IN Len(body) > 0 /\ \A i \in 1..Len(body) : body[i] \in DigitChars

RECURSIVE digits_value(_, _)
digits_value(s, acc) ==
    IF Len(s) = 0 THEN acc ELSE digits_value(Tail(s), 10 * acc + DigitValue(s[1]))

\* int(text)
int_of(s) ==
    IF s[1] = "-" THEN 0 - digits_value(Tail(s), 0)
    ELSE IF s[1] = "+" THEN digits_value(Tail(s), 0)
    ELSE digits_value(s, 0)

RECURSIVE nat_text(_)
nat_text(n) == IF n < 10 THEN <<Digits[n + 1]>> ELSE Append(nat_text(n \div 10), Digits[(n % 10) + 1])

\* str(n) / f'{n}'
str_of_int(n) == IF n < 0 THEN <<"-">> \o nat_text(0 - n) ELSE nat_text(n)

\* f'{a} {b} ...'
join_space(a, b) == a \o <<" ">> \o b

RECURSIVE shlex_scan(_, _, _, _, _)
\* shlex in POSIX mode over the rest `s` of the text: `state` is "", "dq" or "sq"
\* (outside quotes, inside "...", inside '...'), `cur` the token being read,
\* `started` whether a token is being read, `toks` the tokens read so far
shlex_scan(s, state, cur, started, toks) ==
    IF Len(s) = 0
    THEN IF state # "" THEN [err |-> "ValueError", toks |-> <<>>]
         ELSE [err |-> "", toks |-> IF started THEN Append(toks, cur) ELSE toks]
    ELSE LET c == s[1]
             rest == Tail(s)
         IN CASE state = "sq" ->
                   IF c = "'" THEN shlex_scan(rest, "", cur, TRUE, toks)
                   ELSE shlex_scan(rest, "sq", Append(cur, c), TRUE, toks)
              [] state = "dq" ->
                   IF c = "\"" THEN shlex_scan(rest, "", cur, TRUE, toks)
                   ELSE IF c = "\\"
                   THEN IF Len(rest) = 0 THEN [err |-> "ValueError", toks |-> <<>>]
                        ELSE IF rest[1] \in {"\"", "\\"}
                        THEN shlex_scan(Tail(rest), "dq", Append(cur, rest[1]), TRUE, toks)
                        ELSE shlex_scan(Tail(rest), "dq", cur \o <<"\\", rest[1]>>, TRUE, toks)
                   ELSE shlex_scan(rest, "dq", Append(cur, c), TRUE, toks)
              [] OTHER ->
                   IF c = " "
                   THEN shlex_scan(rest, "", <<>>, FALSE,
                                   IF started THEN Append(toks, cur) ELSE toks)
                   ELSE IF c = "'" THEN shlex_scan(rest, "sq", cur, TRUE, toks)
                   ELSE IF c = "\"" THEN shlex_scan(rest, "dq", cur, TRUE, toks)
                   ELSE IF c = "\\"
                   THEN IF Len(rest) = 0 THEN [err |-> "ValueError", toks |-> <<>>]
                        ELSE shlex_scan(Tail(rest), "", Append(cur, rest[1]), TRUE, toks)
                   ELSE shlex_scan(rest, "", Append(cur, c), TRUE, toks)

\* shlex.split(raw)
shlex_split(raw) == shlex_scan(raw, "", <<>>, FALSE, <<>>)

(***************************************************************************)
(* Provider: fixtures                                                       *)
(***************************************************************************)
ZA == <<"a", ".">>
ZB == <<"b", ".">>
ZoneNames == {ZA, ZB}

\* the id the provider side gives a zone (zone_get / zone_create answer it)
ZoneIdOf(zn) == IF zn = ZA THEN "id-a" ELSE "id-b"

V1 == <<"1">>
V2 == <<"2">>
V3 == <<"k", "\\", ";", "p">>      \* octoDNS form of "k;p"
W3 == <<"k", ";", "p">>            \* wire form

SUPPORTS == {"A", "AAAA", "CAA", "CNAME", "DS", "MX", "NS", "PTR", "SRV", "TLSA", "TXT"}

Flat(id, type, name, value, ttl, zid) ==
    [id |-> id, type |-> type, name |-> name, value |-> value, ttl |-> ttl, zone_id |-> zid]

\* record listings the client may answer for a zone
Listing(zid) ==
    { <<>>,
      << Flat("r1", "A", "", V1, 300, zid),
         Flat("r2", "A", "", V2, 300, zid),
         Flat("r3", "TXT", "", W3, 0, zid),
         Flat("r4", "A", "www", V1, 600, zid),
         Flat("r5", "URI", "www", V2, 600, zid),
         Flat("r6", "TXT", "www", V1, 300, zid),
         Flat("r7", "TXT", "www", W3, 600, zid) >> }

RemoteZone(zn) ==
    { [exists |-> FALSE, ttl |-> 0, records |-> <<>>] }
    \cup { [exists |-> TRUE, ttl |-> 3600, records |-> l] : l \in Listing(ZoneIdOf(zn)) }

(***************************************************************************)
(* Codec fixtures: value texts as the client lists them                     *)
(***************************************************************************)
MaxGroup == 2       \* records in one (name, type) group of a listing

AAAA_one == <<":", ":", "1">>
TXT_quoted == <<"\"", "a", "\"">>
NS_bare == <<"n", ".", "x">>
NS_dotted == <<"n", ".", "x", ".">>
Target_at == <<"@">>
MX_bare == <<"1", "0", " ", "m", ".", "x">>
MX_spaced == <<"1", "0", " ", " ", "m", ".", "x", ".">>
MX_padded == <<" ", "5", " ", "m", ".", "x">>
MX_tabbed == <<"1", "0", "\t", "m", ".", "x">>
MX_at == <<"1", " ", "@">>
SRV_bare == <<"1", " ", "2", " ", "3", " ", "t", ".", "x">>
SRV_spaced == <<"1", " ", " ", "2", " ", "3", " ", "t", ".", "x", ".">>
CAA_quoted == <<"0", " ", "i", "s", "s", "u", "e", " ", "\"", "c", "a", ".", "x", "\"">>
CAA_unquoted == <<"0", " ", "i", "s", "s", "u", "e", " ", "c", "a", ".", "x">>
CAA_wild == <<"1", "2", "8", " ", "i", "s", "s", "u", "e", "w", "i", "l", "d", " ", "\"", ";", "\"">>
CAA_two_tokens == <<"0", " ", "i", "s", "s", "u", "e">>
CAA_flags_text == <<"x", " ", "i", "s", "s", "u", "e", " ", "c", "a", ".", "x">>
CAA_open_quote == <<"0", " ", "i", "s", "s", "u", "e", " ", "\"", "c", "a", ".", "x">>
CAA_empty == <<>>
CAA_four_tokens == <<"0", " ", "i", "s", "s", "u", "e", " ", "a", " ", "b">>
DS_good == <<"1", " ", "8", " ", "2", " ", "a", "b">>
DS_three_fields == <<"1", " ", "8", " ", "2">>
DS_five_fields == <<"1", " ", "8", " ", "2", " ", "a", "b", " ", "c", "d">>
DS_spaced == <<"1", " ", " ", "8", " ", "2", " ", "a", "b">>
TLSA_good == <<"3", " ", "1", " ", "1", " ", "a", "b">>
TLSA_three_fields == <<"3", " ", "1", " ", "1">>

\* TXT values at the two sides of the 255-character chunk width
TXT_255 == [k \in 1..255 |-> "x"]
TXT_256 == [k \in 1..256 |-> "x"]

\* the value texts listed for a type
WireValues(type) ==
    CASE type = "A" -> {V1, V2}
      [] type = "AAAA" -> {AAAA_one}
      [] type = "TXT" -> {V1, W3, V3, TXT_quoted, TXT_255, TXT_256}
      [] type = "NS" -> {NS_bare, NS_dotted}
      [] type \in {"CNAME", "PTR"} -> {NS_bare, NS_dotted, Target_at}
      [] type = "MX" -> {MX_bare, MX_spaced, MX_padded, MX_tabbed, MX_at}
      [] type = "SRV" -> {SRV_bare, SRV_spaced}
      [] type = "CAA" -> {CAA_quoted, CAA_unquoted, CAA_wild, CAA_two_tokens, CAA_flags_text,
                          CAA_open_quote, CAA_empty, CAA_four_tokens}
      [] type = "DS" -> {DS_good, DS_three_fields, DS_five_fields, DS_spaced}
      [] type = "TLSA" -> {TLSA_good, TLSA_three_fields}

\* CNAME and PTR hold one value
GroupSizes(type) == IF type \in {"CNAME", "PTR"} THEN {1} ELSE 1..MaxGroup

GroupId(k) == IF k = 1 THEN "g1" ELSE IF k = 2 THEN "g2" ELSE "g3"

\* listings of one apex group of a supported type, followed by an A record of www
CodecListing(zid) ==
    UNION { UNION { { [k \in 1..(n + 1) |->
                         IF k <= n THEN Flat(GroupId(k), type, "", g[k], 300, zid)
                         ELSE Flat("t1", "A", "www", V1, 600, zid)] :
                      g \in [1..n -> WireValues(type)] } :
                    n \in GroupSizes(type) } :
            type \in SUPPORTS }

\* an octoDNS record as the plan carries it
Rec(name, type, ttl, values) == [name |-> name, type |-> type, ttl |-> ttl, values |-> values]
NoRec == Rec("", "", 0, <<>>)

PlanRecords ==
    { Rec("", "A", 300, <<V1>>),
      Rec("", "A", 600, <<V2, V1>>),
      Rec("www", "TXT", 300, <<V3, V1>>) }

Create(n) == [kind |-> "Create", existing |-> NoRec, new |-> n]
Update(e, n) == [kind |-> "Update", existing |-> e, new |-> n]
Delete(e) == [kind |-> "Delete", existing |-> e, new |-> NoRec]

Changes ==
    { Create(n) : n \in PlanRecords }
    \cup { Delete(e) : e \in PlanRecords }
    \cup { Update(e, n) : e \in PlanRecords, n \in PlanRecords }

SameKey(c) == c.kind = "Update" => (c.existing.name = c.new.name /\ c.existing.type = c.new.type
                                     /\ c.existing # c.new)

Plans == UNION { [1..k -> {c \in Changes : SameKey(c)}] : k \in 0..MaxChanges }

(***************************************************************************)
(* Provider: construction                                                   *)
(***************************************************************************)
\* the keyword arguments of the constructor: with or without 'backend'
NoKwargs == [has |-> FALSE, backend |-> ""]
Kwargs ==
    {NoKwargs} \cup { [has |-> TRUE, backend |-> b] :
                        b \in {"dnsapi", "hcloud", "invalid", "HCLOUD", ""} }

\* a client factory that takes the record-CRUD client for an unknown selector
_create_client_lenient(backend, importable) ==
    IF backend = "hcloud"
    THEN IF importable THEN [err |-> "", client |-> "HCloudZonesClient", message |-> <<>>]
         ELSE [err |-> "ImportError", client |-> "none",
               message |-> <<"backend='hcloud' requires the 'hcloud' package">>]
    ELSE [err |-> "", client |-> "HetznerClient", message |-> <<>>]

\* HetznerProvider._create_client; the message of the ValueError is
\* f"Invalid backend '{backend}'. Must be 'dnsapi' or 'hcloud'", kept as its parts
_create_client(backend, importable) ==
    IF backend = "hcloud"
    THEN IF importable THEN [err |-> "", client |-> "HCloudZonesClient", message |-> <<>>]
         ELSE [err |-> "ImportError", client |-> "none",
               message |-> <<"backend='hcloud' requires the 'hcloud' package">>]
    ELSE IF backend = "dnsapi"
    THEN [err |-> "", client |-> "HetznerClient", message |-> <<>>]
    ELSE [err |-> "ValueError", client |-> "none",
          message |-> <<"Invalid backend", backend, "Must be", "dnsapi", "or", "hcloud">>]

\* HetznerProvider._create_strategy
_create_strategy(backend) ==
    IF backend = "hcloud" THEN "HCloudStrategy" ELSE "DNSAPIStrategy"

\* the attributes __init__ has set when it ends, c being what _create_client gave;
\* self._backend is set before the factories run
init_with(backend, c) ==
    [backend |-> backend, client |-> c.client,
     strategy |-> IF c.err # "" THEN "none" ELSE _create_strategy(backend),
     err |-> c.err, message |-> c.message]

\* HetznerProvider.__init__: backend = kwargs.pop('backend', 'dnsapi')
__init__(kwargs, importable) ==
    init_with(IF kwargs.has THEN kwargs.backend ELSE "dnsapi",
              _create_client(IF kwargs.has THEN kwargs.backend ELSE "dnsapi", importable))

(***************************************************************************)
(* Client calls as the provider issues them                                 *)
(***************************************************************************)
NoCall ==
    [op |-> "", chg |-> 0, zname |-> <<>>, zone_id |-> "", name |-> "", type |-> "",
     value |-> <<>>, values |-> <<>>, ttl |-> 0, id |-> ""]

call_zone_get(chg, name) == [NoCall EXCEPT !.op = "zone_get", !.chg = chg, !.zname = name]
call_zone_create(chg, name) == [NoCall EXCEPT !.op = "zone_create", !.chg = chg, !.zname = name]
call_zone_records_get(chg, zid) ==
    [NoCall EXCEPT !.op = "zone_records_get", !.chg = chg, !.zone_id = zid]
call_zone_record_create(chg, zid, name, type, value, ttl) ==
    [NoCall EXCEPT !.op = "zone_record_create", !.chg = chg, !.zone_id = zid, !.name = name,
                   !.type = type, !.value = value, !.ttl = ttl]
call_zone_record_delete(chg, zid, rid) ==
    [NoCall EXCEPT !.op = "zone_record_delete", !.chg = chg, !.zone_id = zid, !.id = rid]
call_rrset_upsert(chg, zid, name, type, values, ttl) ==
    [NoCall EXCEPT !.op = "rrset_upsert", !.chg = chg, !.zone_id = zid, !.name = name,
                   !.type = type, !.values = values, !.ttl = ttl]
call_rrset_delete(chg, zid, name, type) ==
    [NoCall EXCEPT !.op = "rrset_delete", !.chg = chg, !.zone_id = zid, !.name = name,
                   !.type = type]

MutationOps == {"zone_record_create", "zone_record_delete", "rrset_upsert", "rrset_delete"}

(***************************************************************************)
(* Provider: the client as the provider sees it.  `st` threads the provider *)
(* caches, the remote side and the call log through one operation:          *)
(*   [n2i, meta, zrec, remote, calls, err]                                  *)
(* err is the exception that ended the operation ("" while none was raised) *)
(***************************************************************************)
\* skip: the writes of one operation that go through before one raises
NoFault == [at |-> "none", error |-> "", skip |-> 0]

\* the exception the client raises in a call of the kind `at` ("" if none)
Raises(at) == IF fault.at = at THEN fault.error ELSE ""

\* the exceptions zone_metadata turns into HetznerClientNotFound
AsNotFound == {"HetznerClientNotFound", "IndexError", "KeyError", "TypeError"}

NoZone == [id |-> "", name |-> <<>>, ttl |-> 0]

\* client.zone_get(name): the zone dict, or a not-found error
client_zone_get(rem, zn) ==
    IF rem[zn].exists
    THEN [found |-> TRUE,
          zone |-> [id |-> ZoneIdOf(zn), name |-> StripDot(zn), ttl |-> rem[zn].ttl]]
    ELSE [found |-> FALSE, zone |-> NoZone]

\* client.zone_records_get(zone_id)
client_zone_records_get(rem, zid) ==
    LET zn == CHOOSE z \in ZoneNames : ZoneIdOf(z) = zid
    IN rem[zn].records

\* client.zone_create(name)['id'] and what the remote side holds afterwards
client_zone_create(rem, zn) ==
    [id |-> ZoneIdOf(zn),
     remote |-> [rem EXCEPT ![zn] = [exists |-> TRUE, ttl |-> 3600, records |-> <<>>]]]

\* a zone_metadata that asks the client every time and remembers nothing
zone_metadata_uncached(st, zn, chg) ==
    LET got == client_zone_get(st.remote, zn)
        st1 == [st EXCEPT !.calls = Append(@, call_zone_get(chg, StripDot(zn)))]
    IN IF got.found THEN [found |-> TRUE, zone |-> got.zone, st |-> st1]
       ELSE [found |-> FALSE, zone |-> NoZone, st |-> st1]

\* HetznerProvider.zone_metadata(zone_name=zn), on behalf of change number chg
zone_metadata(st, zn, chg) ==
    IF zn \in DOMAIN st.n2i
    THEN [found |-> TRUE, zone |-> st.meta[st.n2i[zn]], st |-> st]
    ELSE LET got == client_zone_get(st.remote, zn)
             st1 == [st EXCEPT !.calls = Append(@, call_zone_get(chg, StripDot(zn)))]
             e == Raises("zone_get")
         IN IF e \in AsNotFound THEN [found |-> FALSE, zone |-> NoZone, st |-> st1]
            ELSE IF e # "" THEN [found |-> FALSE, zone |-> NoZone, st |-> [st1 EXCEPT !.err = e]]
            ELSE IF got.found
            THEN [found |-> TRUE, zone |-> got.zone,
                  st |-> [st1 EXCEPT !.n2i = Put(@, zn, got.zone.id),
                                     !.meta = Put(@, got.zone.id, got.zone)]]
            ELSE [found |-> FALSE, zone |-> NoZone, st |-> st1]

\* zone_records that also caches the empty list of a zone the lookup did not find
zone_records_caches_missing(st, zn, chg) ==
    IF zn \in DOMAIN st.zrec
    THEN [list |-> st.zrec[zn], st |-> st]
    ELSE LET m == zone_metadata(st, zn, chg)
         IN IF ~m.found
            THEN [list |-> <<>>, st |-> [m.st EXCEPT !.zrec = Put(@, zn, <<>>)]]
            ELSE LET recs == client_zone_records_get(m.st.remote, m.zone.id)
                 IN [list |-> recs,
                     st |-> [m.st EXCEPT
                               !.calls = Append(@, call_zone_records_get(chg, m.zone.id)),
                               !.zrec = Put(@, zn, recs)]]

\* the rest of zone_records once zone_metadata has answered with m
zone_records_of(m, zn, chg) ==
    IF m.st.err # "" \/ ~m.found
    THEN [list |-> <<>>, st |-> m.st]
    ELSE LET recs == client_zone_records_get(m.st.remote, m.zone.id)
             st1 == [m.st EXCEPT !.calls = Append(@, call_zone_records_get(chg, m.zone.id))]
             e == Raises("zone_records_get")
         IN IF e = "HetznerClientNotFound" THEN [list |-> <<>>, st |-> st1]
            ELSE IF e # "" THEN [list |-> <<>>, st |-> [st1 EXCEPT !.err = e]]
            ELSE [list |-> recs, st |-> [st1 EXCEPT !.zrec = Put(@, zn, recs)]]

\* HetznerProvider.zone_records(zone): HetznerClientNotFound from either call
\* gives the empty list, any other exception leaves the method
zone_records(st, zn, chg) ==
    IF zn \in DOMAIN st.zrec
    THEN [list |-> st.zrec[zn], st |-> st]
    ELSE zone_records_of(zone_metadata(st, zn, chg), zn, chg)

(***************************************************************************)
(* Provider: codec for the multi-string types                               *)
(***************************************************************************)

\* a TTL rule that always answers the zone's default
_record_ttl_zone_default(record, meta) == meta[record.zone_id].ttl

\* HetznerProvider._record_ttl
_record_ttl(record, meta) ==
    IF record.ttl # 0 THEN record.ttl ELSE meta[record.zone_id].ttl

\* HetznerProvider._data_for_multiple (A, AAAA, TXT)
_data_for_multiple(type, records, meta) ==
    [ttl |-> _record_ttl(records[1], meta),
     type |-> type,
     values |-> [k \in 1..Len(records) |-> escape_semicolon(records[k].value)]]

\* HetznerProvider._params_for_multiple (A, AAAA, NS, TXT)
_params_for_multiple(record) ==
    [k \in 1..Len(record.values) |->
        [value |-> unescape_semicolon(record.values[k]),
         name |-> record.name, ttl |-> record.ttl, type |-> record.type]]

\* HetznerProvider._append_dot; value[-1] of the empty text raises IndexError
_append_dot(value) ==
    IF value = <<"@">> THEN [err |-> "", value |-> value]
    ELSE IF Len(value) = 0 THEN [err |-> "IndexError", value |-> value]
    ELSE IF value[Len(value)] = "." THEN [err |-> "", value |-> value]
    ELSE [err |-> "", value |-> Append(value, ".")]

\* the first error of a sequence of outcomes, "" if there is none
first_err(errs) ==
    IF \A k \in DOMAIN errs : errs[k] = "" THEN ""
    ELSE errs[CHOOSE k \in DOMAIN errs : errs[k] # "" /\ \A j \in 1..(k - 1) : errs[j] = ""]

\* 'for record in records: values.append(...)': the loop stops at the first raise
decode_values(one(_), records) ==
    LET rs == [k \in 1..Len(records) |-> one(records[k].value)]
    IN [err |-> first_err([k \in 1..Len(records) |-> rs[k].err]),
        values |-> [k \in 1..Len(records) |-> rs[k].value]]

Decoded(type, records, meta, d) ==
    [err |-> d.err,
     data |-> [ttl |-> _record_ttl(records[1], meta), type |-> type, values |-> d.values]]

CAA_issue == <<"i", "s", "s", "u", "e">>

\* a CAA decode without the except branch: the parse error is raised
caa_value_raising(raw) ==
    LET sp == shlex_split(raw)
    IN IF sp.err # "" \/ Len(sp.toks) < 3
       THEN [err |-> "ValueError", value |-> [flags |-> 0, tag |-> CAA_issue, value |-> raw]]
       ELSE IF ~int_ok(sp.toks[1])
       THEN [err |-> "ValueError", value |-> [flags |-> 0, tag |-> CAA_issue, value |-> raw]]
       ELSE [err |-> "",
             value |-> [flags |-> int_of(sp.toks[1]), tag |-> sp.toks[2], value |-> sp.toks[3]]]

\* the body of the loop of _data_for_CAA: any exception gives the placeholder
caa_value(raw) ==
    LET sp == shlex_split(raw)
    IN IF sp.err # "" \/ Len(sp.toks) < 3
       THEN [err |-> "", value |-> [flags |-> 0, tag |-> CAA_issue, value |-> raw]]
       ELSE IF ~int_ok(sp.toks[1])
       THEN [err |-> "", value |-> [flags |-> 0, tag |-> CAA_issue, value |-> raw]]
       ELSE [err |-> "",
             value |-> [flags |-> int_of(sp.toks[1]), tag |-> sp.toks[2], value |-> sp.toks[3]]]

\* HetznerProvider._data_for_CAA
_data_for_CAA(type, records, meta) ==
    Decoded(type, records, meta, decode_values(caa_value, records))

single_value(raw) == _append_dot(raw)

\* HetznerProvider._data_for_CNAME / _data_for_PTR: records[0] only
_data_for_CNAME(type, records, meta) ==
    Decoded(type, records, meta, decode_values(single_value, <<records[1]>>))

\* the body of the loop of _data_for_MX
mx_value(raw) ==
    LET sp == split_space(strip(raw))
        preference == sp[1]
        exchange == sp[Len(sp)]
        dotted == _append_dot(exchange)
    IN IF ~int_ok(preference)
       THEN [err |-> "ValueError", value |-> [preference |-> 0, exchange |-> <<>>]]
       ELSE [err |-> dotted.err,
             value |-> [preference |-> int_of(preference), exchange |-> dotted.value]]

\* HetznerProvider._data_for_MX
_data_for_MX(type, records, meta) ==
    Decoded(type, records, meta, decode_values(mx_value, records))

\* HetznerProvider._data_for_NS
_data_for_NS(type, records, meta) ==
    Decoded(type, records, meta, decode_values(single_value, records))

NoDs == [key_tag |-> 0, algorithm |-> 0, digest_type |-> 0, digest |-> <<>>]

\* a DS decode that substitutes a placeholder for a text it cannot parse
ds_value_placeholder(raw) ==
    LET f == split_space(raw)
    IN IF Len(f) # 4 \/ ~(int_ok(f[1]) /\ int_ok(f[2]) /\ int_ok(f[3]))
       THEN [err |-> "", value |-> [NoDs EXCEPT !.digest = raw]]
       ELSE [err |-> "",
             value |-> [key_tag |-> int_of(f[1]), algorithm |-> int_of(f[2]),
                        digest_type |-> int_of(f[3]), digest |-> f[4]]]

\* DsValue.parse_rdata_text: exactly four fields between single spaces, else
\* RrParseError; the three numbers are taken with int() when the record is built
ds_value(raw) ==
    LET f == split_space(raw)
    IN IF Len(f) # 4 THEN [err |-> "RrParseError", value |-> NoDs]
       ELSE IF ~(int_ok(f[1]) /\ int_ok(f[2]) /\ int_ok(f[3]))
       THEN [err |-> "ValueError", value |-> NoDs]
       ELSE [err |-> "",
             value |-> [key_tag |-> int_of(f[1]), algorithm |-> int_of(f[2]),
                        digest_type |-> int_of(f[3]), digest |-> f[4]]]

\* HetznerProvider._data_for_DS
_data_for_DS(type, records, meta) ==
    Decoded(type, records, meta, decode_values(ds_value, records))

NoSrv == [port |-> 0, priority |-> 0, target |-> <<>>, weight |-> 0]

\* the body of the loop of _data_for_SRV
srv_value(raw) ==
    LET value_stripped == strip(raw)
        n == Len(value_stripped)
        priority == split_space(value_stripped)[1]
        weight == split_space(strip(SubSeq(value_stripped, Len(priority) + 1, n)))[1]
        fields == split_space(value_stripped)
        target == fields[Len(fields)]
        head == IF Len(target) = 0 THEN <<>> ELSE SubSeq(value_stripped, 1, n - Len(target))
        heads == split_space(strip(head))
        port == heads[Len(heads)]
        dotted == _append_dot(target)
    IN IF ~int_ok(port) \/ ~int_ok(priority) THEN [err |-> "ValueError", value |-> NoSrv]
       ELSE IF dotted.err # "" THEN [err |-> dotted.err, value |-> NoSrv]
       ELSE IF ~int_ok(weight) THEN [err |-> "ValueError", value |-> NoSrv]
       ELSE [err |-> "",
             value |-> [port |-> int_of(port), priority |-> int_of(priority),
                        target |-> dotted.value, weight |-> int_of(weight)]]

\* HetznerProvider._data_for_SRV
_data_for_SRV(type, records, meta) ==
    Decoded(type, records, meta, decode_values(srv_value, records))

NoTlsa ==
    [certificate_usage |-> 0, selector |-> 0, matching_type |-> 0,
     certificate_association_data |-> <<>>]

\* TlsaValue.parse_rdata_text: exactly four fields between single spaces, else
\* RrParseError; the three numbers are taken with int() when the record is built
tlsa_value(raw) ==
    LET f == split_space(raw)
    IN IF Len(f) # 4 THEN [err |-> "RrParseError", value |-> NoTlsa]
       ELSE IF ~(int_ok(f[1]) /\ int_ok(f[2]) /\ int_ok(f[3]))
       THEN [err |-> "ValueError", value |-> NoTlsa]
       ELSE [err |-> "",
             value |-> [certificate_usage |-> int_of(f[1]), selector |-> int_of(f[2]),
                        matching_type |-> int_of(f[3]),
                        certificate_association_data |-> f[4]]]

\* HetznerProvider._data_for_TLSA
_data_for_TLSA(type, records, meta) ==
    Decoded(type, records, meta, decode_values(tlsa_value, records))

\* getattr(self, f'_data_for_{_type}')(_type, records)
data_for(type, records, meta) ==
    CASE type \in {"A", "AAAA", "TXT"} ->
            [err |-> "", data |-> _data_for_multiple(type, records, meta)]
      [] type = "CAA" -> _data_for_CAA(type, records, meta)
      [] type \in {"CNAME", "PTR"} -> _data_for_CNAME(type, records, meta)
      [] type = "MX" -> _data_for_MX(type, records, meta)
      [] type = "NS" -> _data_for_NS(type, records, meta)
      [] type = "DS" -> _data_for_DS(type, records, meta)
      [] type = "SRV" -> _data_for_SRV(type, records, meta)
      [] type = "TLSA" -> _data_for_TLSA(type, records, meta)

Param(record, value) ==
    [value |-> value, name |-> record.name, ttl |-> record.ttl, type |-> record.type]

\* HetznerProvider._params_for_CAA: f'{value.flags} {value.tag} "{value.value}"'
_params_for_CAA(record) ==
    [k \in 1..Len(record.values) |->
        Param(record,
              join_space(join_space(str_of_int(record.values[k].flags), record.values[k].tag),
                         <<"\"">> \o record.values[k].value \o <<"\"">>))]

\* HetznerProvider._params_for_single (CNAME, PTR): record.value
_params_for_single(record) == << Param(record, record.values[1]) >>

\* HetznerProvider._params_for_MX: f'{value.preference} {value.exchange}'
_params_for_MX(record) ==
    [k \in 1..Len(record.values) |->
        Param(record, join_space(str_of_int(record.values[k].preference),
                                 record.values[k].exchange))]

\* HetznerProvider._params_for_DS
_params_for_DS(record) ==
    [k \in 1..Len(record.values) |->
        Param(record,
              join_space(join_space(join_space(str_of_int(record.values[k].key_tag),
                                               str_of_int(record.values[k].algorithm)),
                                    str_of_int(record.values[k].digest_type)),
                         record.values[k].digest))]

\* an SRV encoder that writes the port before the weight
_params_for_SRV_port_first(record) ==
    [k \in 1..Len(record.values) |->
        Param(record,
              join_space(join_space(join_space(str_of_int(record.values[k].priority),
                                               str_of_int(record.values[k].port)),
                                    str_of_int(record.values[k].weight)),
                         record.values[k].target))]

\* HetznerProvider._params_for_SRV
_params_for_SRV(record) ==
    [k \in 1..Len(record.values) |->
        Param(record,
              join_space(join_space(join_space(str_of_int(record.values[k].priority),
                                               str_of_int(record.values[k].weight)),
                                    str_of_int(record.values[k].port)),
                         record.values[k].target))]

\* HetznerProvider._params_for_TLSA
_params_for_TLSA(record) ==
    [k \in 1..Len(record.values) |->
        Param(record,
              join_space(join_space(join_space(str_of_int(record.values[k].certificate_usage),
                                               str_of_int(record.values[k].selector)),
                                    str_of_int(record.values[k].matching_type)),
                         record.values[k].certificate_association_data))]

\* getattr(self, f'_params_for_{change.new._type}')
params_for(record) ==
    CASE record.type \in {"A", "AAAA", "NS", "TXT"} -> _params_for_multiple(record)
      [] record.type = "CAA" -> _params_for_CAA(record)
      [] record.type \in {"CNAME", "PTR"} -> _params_for_single(record)
      [] record.type = "MX" -> _params_for_MX(record)
      [] record.type = "DS" -> _params_for_DS(record)
      [] record.type = "SRV" -> _params_for_SRV(record)
      [] record.type = "TLSA" -> _params_for_TLSA(record)

(***************************************************************************)
(* Strategies (strategies.py): the client calls of one change               *)
(***************************************************************************)

\* a create that sends the values last to first
DNSAPIStrategy_apply_create_reversed(zone_id, change, chg) ==
    LET params == params_for(change.new)
        n == Len(params)
    IN [k \in 1..n |->
          call_zone_record_create(chg, zone_id, params[n + 1 - k].name, params[n + 1 - k].type,
                                  params[n + 1 - k].value, params[n + 1 - k].ttl)]

\* DNSAPIStrategy.apply_create
DNSAPIStrategy_apply_create(zone_id, change, chg) ==
    LET params == params_for(change.new)
    IN [k \in 1..Len(params) |->
          call_zone_record_create(chg, zone_id, params[k].name, params[k].type,
                                  params[k].value, params[k].ttl)]

\* a delete that takes every record of the existing record's name, of any type
DNSAPIStrategy_apply_delete_by_name(zone_id, change, zrecs, chg) ==
    LET existing == change.existing
        Match(r) == existing.name = r.name
        hit == SelectSeq(zrecs, Match)
    IN [k \in 1..Len(hit) |-> call_zone_record_delete(chg, zone_id, hit[k].id)]

\* DNSAPIStrategy.apply_delete
DNSAPIStrategy_apply_delete(zone_id, change, zrecs, chg) ==
    LET existing == change.existing
        Match(r) == existing.name = r.name /\ existing.type = r.type
        hit == SelectSeq(zrecs, Match)
    IN [k \in 1..Len(hit) |-> call_zone_record_delete(chg, zone_id, hit[k].id)]

\* an update that creates the new values before it deletes the old records
DNSAPIStrategy_apply_update_create_first(zone_id, change, zrecs, chg) ==
    DNSAPIStrategy_apply_create(zone_id, change, chg)
    \o DNSAPIStrategy_apply_delete(zone_id, change, zrecs, chg)

\* DNSAPIStrategy.apply_update
DNSAPIStrategy_apply_update(zone_id, change, zrecs, chg) ==
    DNSAPIStrategy_apply_delete(zone_id, change, zrecs, chg)
    \o DNSAPIStrategy_apply_create(zone_id, change, chg)

\* HCloudStrategy.apply_create
HCloudStrategy_apply_create(zone_id, change, chg) ==
    LET new == change.new
        params == params_for(new)
        values == [k \in 1..Len(params) |-> params[k].value]
    IN << call_rrset_upsert(chg, zone_id, new.name, new.type, values, new.ttl) >>

\* an update done the record-CRUD way: delete the RRSet, then upsert it
HCloudStrategy_apply_update_delete_first(zone_id, change, zrecs, chg) ==
    << call_rrset_delete(chg, zone_id, change.existing.name, change.existing.type) >>
    \o HCloudStrategy_apply_create(zone_id, change, chg)

\* HCloudStrategy.apply_update
HCloudStrategy_apply_update(zone_id, change, zrecs, chg) ==
    HCloudStrategy_apply_create(zone_id, change, chg)

\* a delete done the record-CRUD way: one zone_record_delete per listed value
HCloudStrategy_apply_delete_per_value(zone_id, change, zrecs, chg) ==
    DNSAPIStrategy_apply_delete(zone_id, change, zrecs, chg)

\* HCloudStrategy.apply_delete
HCloudStrategy_apply_delete(zone_id, change, zrecs, chg) ==
    LET existing == change.existing
    IN << call_rrset_delete(chg, zone_id, existing.name, existing.type) >>

(***************************************************************************)
(* Provider: apply                                                          *)
(***************************************************************************)

\* the write calls a log holds
WritesMade(log) == Cardinality({ i \in DOMAIN log : log[i].op \in MutationOps })

\* a strategy whose remaining calls are made although one of them raised
issue_past_raise(st, cs) ==
    IF st.err # "" \/ Len(cs) = 0 THEN st
    ELSE IF Raises("write") # "" /\ WritesMade(st.calls) + Len(cs) > fault.skip
    THEN [st EXCEPT !.calls = @ \o cs, !.err = Raises("write")]
    ELSE [st EXCEPT !.calls = @ \o cs]

\* the strategy issues its client calls one after the other; a call that raises
\* is the last one made
issue(st, cs) ==
    IF st.err # "" \/ Len(cs) = 0 THEN st
    ELSE IF Raises("write") # "" /\ WritesMade(st.calls) + Len(cs) > fault.skip
    THEN [st EXCEPT !.calls = @ \o SubSeq(cs, 1, fault.skip - WritesMade(st.calls) + 1),
                    !.err = Raises("write")]
    ELSE [st EXCEPT !.calls = @ \o cs]

\* HetznerProvider._apply_Create
_apply_Create(be, st, zone_id, zn, change, chg) ==
    issue(st, IF be = "hcloud"
              THEN HCloudStrategy_apply_create(zone_id, change, chg)
              ELSE DNSAPIStrategy_apply_create(zone_id, change, chg))

\* self._strategy.apply_update(self._client, zone_id, change, params_for, zone_records)
strategy_apply_update(be, zr, zone_id, change, chg) ==
    issue(zr.st, IF be = "hcloud"
                 THEN HCloudStrategy_apply_update(zone_id, change, zr.list, chg)
                 ELSE DNSAPIStrategy_apply_update(zone_id, change, zr.list, chg))

\* HetznerProvider._apply_Update
_apply_Update(be, st, zone_id, zn, change, chg) ==
    strategy_apply_update(be, zone_records(st, zn, chg), zone_id, change, chg)

\* self._strategy.apply_delete(self._client, zone_id, change, zone_records)
strategy_apply_delete(be, zr, zone_id, change, chg) ==
    issue(zr.st, IF be = "hcloud"
                 THEN HCloudStrategy_apply_delete(zone_id, change, zr.list, chg)
                 ELSE DNSAPIStrategy_apply_delete(zone_id, change, zr.list, chg))

\* HetznerProvider._apply_Delete
_apply_Delete(be, st, zone_id, zn, change, chg) ==
    strategy_apply_delete(be, zone_records(st, zn, chg), zone_id, change, chg)

RECURSIVE apply_changes_last_first(_, _, _, _, _, _)
\* a loop that takes the changes of the plan last to first
apply_changes_last_first(be, st, zone_id, zn, plan, chg) ==
    IF chg > Len(plan) \/ st.err # "" THEN st
    ELSE LET at == Len(plan) + 1 - chg
             c == plan[at]
             st1 == CASE c.kind = "Create" -> _apply_Create(be, st, zone_id, zn, c, at)
                      [] c.kind = "Update" -> _apply_Update(be, st, zone_id, zn, c, at)
                      [] c.kind = "Delete" -> _apply_Delete(be, st, zone_id, zn, c, at)
         IN apply_changes_last_first(be, st1, zone_id, zn, plan, chg + 1)

RECURSIVE apply_changes(_, _, _, _, _, _)
\* the loop of HetznerProvider._apply: getattr(self, f'_apply_{class_name}')(zone_id, change)
apply_changes(be, st, zone_id, zn, plan, chg) ==
    IF chg > Len(plan) \/ st.err # "" THEN st
    ELSE LET c == plan[chg]
             st1 == CASE c.kind = "Create" -> _apply_Create(be, st, zone_id, zn, c, chg)
                      [] c.kind = "Update" -> _apply_Update(be, st, zone_id, zn, c, chg)
                      [] c.kind = "Delete" -> _apply_Delete(be, st, zone_id, zn, c, chg)
         IN apply_changes(be, st1, zone_id, zn, plan, chg + 1)

\* a zone resolution that creates the zone under its name with the trailing dot
apply_resolve_keeps_dot(st, zn) ==
    LET m == zone_metadata(st, zn, 0)
    IN IF m.found
       THEN [zone_id |-> m.zone.id, st |-> m.st]
       ELSE LET made == client_zone_create(m.st.remote, zn)
            IN [zone_id |-> made.id,
                st |-> [m.st EXCEPT !.calls = Append(@, call_zone_create(0, zn)),
                                    !.remote = made.remote]]

\* the try/except of HetznerProvider._apply once zone_metadata has answered with m
apply_resolve_of(m, zn) ==
    IF m.st.err # "" THEN [zone_id |-> "", st |-> m.st]
    ELSE IF m.found
    THEN [zone_id |-> m.zone.id, st |-> m.st]
    ELSE LET made == client_zone_create(m.st.remote, zn)
             st1 == [m.st EXCEPT !.calls = Append(@, call_zone_create(0, StripDot(zn)))]
         IN IF Raises("zone_create") # ""
            THEN [zone_id |-> "", st |-> [st1 EXCEPT !.err = Raises("zone_create")]]
            ELSE [zone_id |-> made.id, st |-> [st1 EXCEPT !.remote = made.remote]]

\* the zone resolution of HetznerProvider._apply: lookup, and zone_create on NotFound
apply_resolve(st, zn) == apply_resolve_of(zone_metadata(st, zn, 0), zn)

\* 'for change in changes' with the zone id the resolution gave
apply_loop(be, r, zn, plan) == apply_changes(be, r.st, r.zone_id, zn, plan, 1)

\* a cache eviction that also forgets the zone's id
apply_pop_forgets_id(st1, zn) ==
    IF st1.err # "" THEN st1 ELSE [st1 EXCEPT !.zrec = Drop(@, zn), !.n2i = Drop(@, zn)]

\* self._zone_records.pop(desired.name, None), not reached after a raise
apply_pop(st1, zn) == IF st1.err # "" THEN st1 ELSE [st1 EXCEPT !.zrec = Drop(@, zn)]

\* an apply that leaves the zone's record cache entry in place
_apply_keeps_cache(be, st, zn, plan) ==
    apply_loop(be, apply_resolve(st, zn), zn, plan)

\* HetznerProvider._apply
_apply(be, st, zn, plan) ==
    apply_pop(apply_loop(be, apply_resolve(st, zn), zn, plan), zn)

(***************************************************************************)
(* Provider: populate                                                       *)
(***************************************************************************)
RECURSIVE dedupe(_)
\* the keys of a dict in insertion order
dedupe(seq) ==
    IF Len(seq) = 0 THEN <<>>
    ELSE LET other(x) == x # Head(seq)
         IN <<Head(seq)>> \o dedupe(SelectSeq(Tail(seq), other))

\* values[record['name']][record['type']]: the (name, type) groups in the order
\* the two nested loops of populate visit them
group_keys(kept) ==
    LET names == dedupe([k \in 1..Len(kept) |-> kept[k].name])
        types(n) == LET named(r) == r.name = n
                        rs == SelectSeq(kept, named)
                    IN dedupe([k \in 1..Len(rs) |-> rs[k].type])
    IN Concat([i \in 1..Len(names) |->
                 [j \in 1..Len(types(names[i])) |-> <<names[i], types(names[i])[j]>>]])

\* the first loop of populate: the listed records of a supported type
supported(list) ==
    LET sup(r) == r.type \in SUPPORTS
    IN SelectSeq(list, sup)

\* a grouping that looks at the name only
group_of_by_name(kept, key) ==
    LET same(r) == r.name = key[1]
    IN SelectSeq(kept, same)

\* values[name][type]
group_of(kept, key) ==
    LET same(r) == r.name = key[1] /\ r.type = key[2]
    IN SelectSeq(kept, same)

\* data_for(_type, records) of every group, in the order of the second loop
decode_groups(kept, keys, meta) ==
    [k \in 1..Len(keys) |-> data_for(keys[k][2], group_of(kept, keys[k]), meta)]

\* what populate leaves: the records added before the first raise, `exists`,
\* and the exception that ended it ("" if none)
populate_result(zr, zn, keys, outs) ==
    LET err == IF zr.st.err # "" THEN zr.st.err
               ELSE first_err([k \in 1..Len(keys) |-> outs[k].err])
        done == { k \in 1..Len(keys) : \A j \in 1..k : outs[j].err = "" }
    IN [added |-> { Rec(keys[k][1], keys[k][2], outs[k].data.ttl, outs[k].data.values) :
                      k \in done },
        exists |-> err = "" /\ zn \in DOMAIN zr.st.zrec,
        error |-> err,
        st |-> zr.st]

populate_groups(zr, zn, kept, keys) ==
    populate_result(zr, zn, keys, decode_groups(kept, keys, zr.st.meta))

populate_records(zr, zn, kept) == populate_groups(zr, zn, kept, group_keys(kept))

\* HetznerProvider.populate once zone_records has answered with zr
populate_of(zr, zn) == populate_records(zr, zn, supported(zr.list))

\* HetznerProvider.populate
populate(st, zn) == populate_of(zone_records(st, zn, 0), zn)

(***************************************************************************)
(* RRSet adapter (hcloud_adapter.py).  The hcloud objects are the ones the  *)
(* adapter's unit tests build (FakeRRSet, FakeZone, FakeZones): a zone      *)
(* holds a list of RRSets, each [id, name, type, ttl, values].              *)
(***************************************************************************)
RR(id, name, type, ttl, values) ==
    [id |-> id, name |-> name, type |-> type, ttl |-> ttl, values |-> values]

VA == <<"a">>
VB == <<"b", ":", "c">>

\* which call paths the hcloud objects offer
\*   rr_update, rr_delete : rrset.update / rrset.delete are callable
\*   z_create  : zone.create_rrset    "none" | "plain" | "zone_id" (TypeError, then zone_id=)
\*               and for each two-shape method "neither": both shapes raise TypeError
\*   z_update  : zone.update_rrset    "none" | "byname" | "rrset"  (TypeError, then rrset=)
\*   z_delete  : zone.delete_rrset    "none" | "byname" | "rrset"  (TypeError, then rrset=)
\*   s_create  : zones.create_rrset   "none" | "zone"  | "zone_id" (TypeError, then zone_id=)
\*   s_update, s_delete : zones.update_rrset / zones.delete_rrset are callable
\*   create    : zones.create is callable
DefaultCaps ==
    [rr_update |-> TRUE, rr_delete |-> TRUE,
     z_create |-> "zone_id", z_update |-> "byname", z_delete |-> "byname",
     s_create |-> "zone", s_update |-> TRUE, s_delete |-> TRUE, create |-> TRUE]

NewId(k) == <<"n", Digits[k + 1]>>

\* the id the hcloud side gives a created RRSet: one no RRSet of the zone has
FreshId(L) ==
    LET used == { L[i].id : i \in 1..Len(L) }
        k == CHOOSE n \in 0..9 : NewId(n) \notin used /\ \A m \in 0..(n - 1) : NewId(m) \in used
    IN NewId(k)

\* name or '@'
or_at(name) == IF name = "" THEN "@" ELSE name

\* index of the first element of L satisfying a (name, type) comparison, 0 if none
FirstNamed(L, name, type) ==
    IF \E i \in 1..Len(L) : L[i].name = name /\ L[i].type = type
    THEN CHOOSE i \in 1..Len(L) :
            /\ L[i].name = name /\ L[i].type = type
            /\ \A j \in 1..(i - 1) : ~(L[j].name = name /\ L[j].type = type)
    ELSE 0

FirstWithId(L, id) ==
    IF \E i \in 1..Len(L) : L[i].id = id
    THEN CHOOSE i \in 1..Len(L) : L[i].id = id /\ \A j \in 1..(i - 1) : L[j].id # id
    ELSE 0

RemoveAt(L, i) == SubSeq(L, 1, i - 1) \o SubSeq(L, i + 1, Len(L))

\* list.pop(idx), the IndexError swallowed (idx counts from 1 here)
list_pop(L, i) == IF i >= 1 /\ i <= Len(L) THEN RemoveAt(L, i) ELSE L

\* a removal that leaves the list as it is
list_remove_nothing(L, target) == L

\* list.remove(target), the ValueError swallowed
list_remove(L, target) ==
    LET i == FirstWithId(L, target.id) IN IF i = 0 THEN L ELSE RemoveAt(L, i)

\* FakeRRSet.update / FakeZones.update_rrset(rrset=...): the RRSet object is rewritten
hc_update_rrset(L, id, values, ttl) ==
    [i \in 1..Len(L) |-> IF L[i].id = id THEN [L[i] EXCEPT !.values = values, !.ttl = ttl]
                         ELSE L[i]]

\* FakeZone.update_rrset(name, type, records, ttl): the first RRSet of that name and type
hc_update_by_name(L, name, type, values, ttl) ==
    LET i == FirstNamed(L, name, type)
    IN IF i = 0 THEN L ELSE [L EXCEPT ![i] = [L[i] EXCEPT !.values = values, !.ttl = ttl]]

\* FakeZone.create_rrset / FakeZones.create_rrset: a new RRSet is appended
hc_create_rrset(L, name, type, values, ttl) ==
    Append(L, RR(FreshId(L), name, type, ttl, values))

\* FakeZones.delete_rrset(rrset): the RRSet leaves the zone's list
hc_delete_rrset(L, id) ==
    LET i == FirstWithId(L, id) IN IF i = 0 THEN L ELSE RemoveAt(L, i)

\* FakeZone.delete_rrset(name, type): the first RRSet of that name and type leaves
hc_delete_by_name(L, name, type) ==
    LET i == FirstNamed(L, name, type) IN IF i = 0 THEN L ELSE RemoveAt(L, i)

\* HCloudZonesClient._get_zone_by_id_or_name: get_by_id, then get; both answer
\* only a zone the read path already shows
_get_zone_by_id_or_name(zs) ==
    LET by_id == IF zs = "visible" THEN "zone" ELSE "raises"
        by_get == IF zs = "visible" THEN "zone" ELSE "raises"
    IN IF by_id = "zone" THEN "zone" ELSE by_get

AOut(result, path, L) == [result |-> result, path |-> path, rrsets |-> L, tried |-> <<>>]

\* one call made on an hcloud object: the method, the shape of its keyword
\* arguments, and how it ended
Try(call, shape, outcome) == [call |-> call, shape |-> shape, outcome |-> outcome]

\* the outcome of a ladder: what the caller gets, the path that took effect,
\* the zone's RRSets afterwards and the calls made in order
Tried(result, path, L, tried) ==
    [result |-> result, path |-> path, rrsets |-> L, tried |-> tried]

\* a create ladder that repeats the zone-level call after it succeeded
create_ladder_twice(cp, L, name, type, values, ttl) ==
    LET once == hc_create_rrset(L, name, type, values, ttl)
    IN Tried("ok", "zone.create_rrset", hc_create_rrset(once, name, type, values, ttl),
             <<Try("zone.create_rrset", "plain", "ok"), Try("zone.create_rrset", "zone_id", "ok")>>)

\* the create branch of rrset_upsert: zone.create_rrset plain, then with
\* zone_id= after a TypeError; zones.create_rrset only when the zone has no
\* create_rrset, with zone=, then with zone_id= after a TypeError
create_ladder(cp, L, name, type, values, ttl) ==
    IF cp.z_create = "plain"
    THEN Tried("ok", "zone.create_rrset", hc_create_rrset(L, name, type, values, ttl),
               <<Try("zone.create_rrset", "plain", "ok")>>)
    ELSE IF cp.z_create = "zone_id"
    THEN Tried("ok", "zone.create_rrset", hc_create_rrset(L, name, type, values, ttl),
               <<Try("zone.create_rrset", "plain", "TypeError"),
                 Try("zone.create_rrset", "zone_id", "ok")>>)
    ELSE IF cp.z_create = "neither"
    THEN Tried("TypeError", "none", L,
               <<Try("zone.create_rrset", "plain", "TypeError"),
                 Try("zone.create_rrset", "zone_id", "TypeError")>>)
    ELSE IF cp.s_create = "zone"
    THEN Tried("ok", "zones.create_rrset", hc_create_rrset(L, name, type, values, ttl),
               <<Try("zones.create_rrset", "zone", "ok")>>)
    ELSE IF cp.s_create = "zone_id"
    THEN Tried("ok", "zones.create_rrset", hc_create_rrset(L, name, type, values, ttl),
               <<Try("zones.create_rrset", "zone", "TypeError"),
                 Try("zones.create_rrset", "zone_id", "ok")>>)
    ELSE IF cp.s_create = "neither"
    THEN Tried("TypeError", "none", L,
               <<Try("zones.create_rrset", "zone", "TypeError"),
                 Try("zones.create_rrset", "zone_id", "TypeError")>>)
    ELSE Tried("NotImplementedError", "none", L, <<>>)

\* the update ladder shared by rrset_upsert and _rrset_remove_value
update_ladder(cp, L, target, name, type, values, ttl) ==
    IF cp.rr_update
    THEN Tried("ok", "rrset.update", hc_update_rrset(L, target.id, values, ttl),
               <<Try("rrset.update", "named", "ok")>>)
    ELSE IF cp.z_update = "byname"
    THEN Tried("ok", "zone.update_rrset", hc_update_by_name(L, name, type, values, ttl),
               <<Try("zone.update_rrset", "named", "ok")>>)
    ELSE IF cp.z_update = "rrset"
    THEN Tried("ok", "zone.update_rrset(rrset)", hc_update_rrset(L, target.id, values, ttl),
               <<Try("zone.update_rrset", "named", "TypeError"),
                 Try("zone.update_rrset", "rrset", "ok")>>)
    ELSE IF cp.z_update = "neither"
    THEN Tried("TypeError", "none", L,
               <<Try("zone.update_rrset", "named", "TypeError"),
                 Try("zone.update_rrset", "rrset", "TypeError")>>)
    ELSE IF cp.s_update
    THEN Tried("ok", "zones.update_rrset", hc_update_rrset(L, target.id, values, ttl),
               <<Try("zones.update_rrset", "rrset", "ok")>>)
    ELSE Tried("NotImplementedError", "none", L, <<>>)

\* the delete ladder shared by rrset_delete and _rrset_remove_value
delete_ladder(cp, L, target, name, type) ==
    IF cp.rr_delete
    THEN Tried("ok", "rrset.delete", L, <<Try("rrset.delete", "named", "ok")>>)
    ELSE IF cp.z_delete = "byname"
    THEN Tried("ok", "zone.delete_rrset", hc_delete_by_name(L, name, type),
               <<Try("zone.delete_rrset", "named", "ok")>>)
    ELSE IF cp.z_delete = "rrset"
    THEN Tried("ok", "zone.delete_rrset(rrset)", hc_delete_rrset(L, target.id),
               <<Try("zone.delete_rrset", "named", "TypeError"),
                 Try("zone.delete_rrset", "rrset", "ok")>>)
    ELSE IF cp.z_delete = "neither"
    THEN Tried("TypeError", "none", L,
               <<Try("zone.delete_rrset", "named", "TypeError"),
                 Try("zone.delete_rrset", "rrset", "TypeError")>>)
    ELSE IF cp.s_delete
    THEN Tried("ok", "zones.delete_rrset", hc_delete_rrset(L, target.id),
               <<Try("zones.delete_rrset", "rrset", "ok")>>)
    ELSE Tried("NotImplementedError", "none", L, <<>>)

\* target = None: the loop of rrset_upsert found no RRSet
NoTarget == RR(<<>>, "", "", 0, <<>>)

\* the first half of rrset_upsert: list the zone's RRSets and take the first
\* whose name and type compare equal
upsert_find(L, name, type) ==
    IF FirstNamed(L, name, type) = 0 THEN NoTarget ELSE L[FirstNamed(L, name, type)]

\* a second half that adds the new values to those the RRSet holds
upsert_write_merges(cp, L, target, name, type, values, ttl) ==
    IF target = NoTarget
    THEN create_ladder(cp, L, or_at(name), type, values, ttl)
    ELSE update_ladder(cp, L, target, or_at(name), type,
                       L[FirstWithId(L, target.id)].values \o values, ttl)

\* the second half of rrset_upsert: create when nothing was found, else update
\* the RRSet found, on the zone as it is when the call is made
upsert_write(cp, L, target, name, type, values, ttl) ==
    IF target = NoTarget
    THEN create_ladder(cp, L, or_at(name), type, values, ttl)
    ELSE update_ladder(cp, L, target, or_at(name), type, values, ttl)

\* HCloudZonesClient.rrset_upsert
rrset_upsert(cp, zs, L, name, type, values, ttl) ==
    IF _get_zone_by_id_or_name(zs) # "zone"
    THEN AOut("KeyError", "none", L)
    ELSE upsert_write(cp, L, upsert_find(L, name, type), name, type, values, ttl)

\* the removal from the adapter's list after a delete call that gave d
after_delete_pop(d, idx) ==
    IF d.result # "ok" THEN d ELSE [d EXCEPT !.rrsets = list_pop(d.rrsets, idx)]

\* HCloudZonesClient.rrset_delete
rrset_delete(cp, zs, L, name, type) ==
    IF _get_zone_by_id_or_name(zs) # "zone"
    THEN AOut("KeyError", "none", L)
    ELSE LET idx == FirstNamed(L, name, type)
         IN IF idx = 0
            THEN AOut("ok", "nothing", L)
            ELSE after_delete_pop(delete_ladder(cp, L, L[idx], or_at(name), type), idx)

\* a removal of one value that treats an unknown RRSet id as an error
_rrset_remove_value_unknown_raises(cp, zs, zt, L, rrset_id, value) ==
    IF FirstWithId(L, rrset_id) = 0
    THEN AOut("KeyError", "none", L)
    ELSE LET target == L[FirstWithId(L, rrset_id)]
             keep(v) == v # value
         IN update_ladder(cp, L, target, target.name, target.type,
                          SelectSeq(target.values, keep), target.ttl)

\* the removal from the adapter's list after a delete call that gave d
after_delete_remove(d, target) ==
    IF d.result # "ok" THEN d ELSE [d EXCEPT !.rrsets = list_remove(d.rrsets, target)]

\* HCloudZonesClient._rrset_remove_value
_rrset_remove_value(cp, zs, zt, L, rrset_id, value) ==
    IF _get_zone_by_id_or_name(zs) # "zone"
    THEN AOut("KeyError", "none", L)
    ELSE LET t == FirstWithId(L, rrset_id)
         IN IF t = 0
            THEN AOut("ok", "nothing", L)
            ELSE LET target == L[t]
                     keep(v) == v # value
                     new_values == SelectSeq(target.values, keep)
                     ttl == IF target.ttl # 0 THEN target.ttl
                            ELSE IF zt # 0 THEN zt ELSE DEFAULT_TTL
                 IN IF new_values = <<>>
                    THEN after_delete_remove(
                             delete_ladder(cp, L, target, target.name, target.type), target)
                    ELSE update_ladder(cp, L, target, target.name, target.type,
                                       new_values, ttl)

\* str.partition(':')
partition(s) ==
    IF \E i \in 1..Len(s) : s[i] = ":"
    THEN LET i == CHOOSE k \in 1..Len(s) : s[k] = ":" /\ \A j \in 1..(k - 1) : s[j] # ":"
         IN [head |-> SubSeq(s, 1, i - 1), tail |-> SubSeq(s, i + 1, Len(s))]
    ELSE [head |-> s, tail |-> <<>>]

\* HCloudZonesClient.zone_record_delete
zone_record_delete(cp, zs, zt, L, record_id) ==
    LET p == partition(record_id)
    IN _rrset_remove_value(cp, zs, zt, L, p.head, p.tail)

\* HCloudZonesClient.zone_record_create: rrset_upsert with the one value as list
zone_record_create(cp, zs, L, name, type, value, ttl) ==
    rrset_upsert(cp, zs, L, name, type, <<value>>, ttl)

\* f'{rrset.id}:{value}'
synthetic_id(id, value) == id \o <<":">> \o value

\* a flattening that hands out the RRSet's name as it is stored
zone_records_get_keeps_marker(zs, zt, L, zone_id) ==
    LET flat(r) == [k \in 1..Len(r.values) |->
                      [id |-> synthetic_id(r.id, r.values[k]),
                       type |-> r.type,
                       name |-> r.name,
                       value |-> r.values[k],
                       ttl |-> IF r.ttl # 0 THEN r.ttl
                               ELSE IF zt # 0 THEN zt ELSE DEFAULT_TTL,
                       zone_id |-> zone_id]]
    IN Concat([i \in 1..Len(L) |-> flat(L[i])])

\* HCloudZonesClient.zone_records_get
zone_records_get(zs, zt, L, zone_id) ==
    LET flat(r) == [k \in 1..Len(r.values) |->
                      [id |-> synthetic_id(r.id, r.values[k]),
                       type |-> r.type,
                       name |-> IF r.name = "@" THEN "" ELSE r.name,
                       value |-> r.values[k],
                       ttl |-> IF r.ttl # 0 THEN r.ttl
                               ELSE IF zt # 0 THEN zt ELSE DEFAULT_TTL,
                       zone_id |-> zone_id]]
    IN Concat([i \in 1..Len(L) |-> flat(L[i])])

\* HCloudZonesClient.zone_create: zones.create(name=name).  `shown` says whether
\* the provider's read path shows the new zone at once or only later
zone_create(cp, zs, shown) ==
    IF ~cp.create THEN [result |-> "NotImplementedError", zstate |-> zs]
    ELSE [result |-> "ok", zstate |-> IF shown THEN "visible" ELSE "pending"]

(***************************************************************************)
(* Provider: the state machine                                              *)
(***************************************************************************)
St ==
    [n2i |-> _zone_name_to_id, meta |-> _zone_metadata, zrec |-> _zone_records,
     remote |-> remote, calls |-> <<>>, err |-> ""]

NoLast ==
    [op |-> "idle", zone |-> <<>>, plan |-> <<>>, exists |-> FALSE, added |-> {}, error |-> "",
     kwargs |-> NoKwargs, message |-> <<>>]

Commit(st) ==
    /\ _zone_name_to_id' = st.n2i
    /\ _zone_metadata' = st.meta
    /\ _zone_records' = st.zrec
    /\ remote' = st.remote
    /\ calls' = st.calls

InitProvider ==
    /\ _backend \in {"dnsapi", "hcloud"}
    /\ _client = _create_client(_backend, TRUE).client
    /\ _strategy = _create_strategy(_backend)
    /\ _zone_records = <<>>
    /\ _zone_metadata = <<>>
    /\ _zone_name_to_id = <<>>
    /\ remote \in [ZoneNames -> UNION { RemoteZone(zn) : zn \in ZoneNames }]
    /\ \A zn \in ZoneNames : remote[zn] \in RemoteZone(zn)
    /\ remote[ZB].exists
    /\ fault = NoFault
    /\ calls = <<>>
    /\ last = NoLast

NoALast ==
    [op |-> "idle", name |-> "", type |-> "", values |-> <<>>, ttl |-> 0,
     rid |-> <<>>, result |-> "", path |-> "", pre |-> <<>>, retried |-> FALSE,
     records |-> <<>>, tried |-> <<>>]

\* no zone listing is running on the record client
NoPaging == [pc |-> "idle", page |-> 0, ret |-> <<>>, requested |-> <<>>, got |-> <<>>,
             error |-> ""]

\* the API holds no record and the record client has made no request
NoRequest == [op |-> "idle", status |-> 0, outcome |-> "", sent |-> <<>>, result |-> <<>>]
NoHttp == [records |-> <<>>, written |-> <<>>, last |-> NoRequest]

\* no rrset_upsert calls are interleaved
NoRace == [name |-> "", type |-> "", procs |-> <<>>, order |-> <<>>, pre |-> <<>>]

\* the adapter is constructed but not used
InitAdapterIdle ==
    /\ paging = NoPaging
    /\ http = NoHttp
    /\ race = NoRace
    /\ zstate = "absent"
    /\ zttl = 0
    /\ rrsets = <<>>
    /\ caps = DefaultCaps
    /\ alast = NoALast

Idle == last.op = "idle"

\* the provider's fields and the caller's view after populate gave r
Populated(r, zn) ==
    /\ Commit(r.st)
    /\ last' = [NoLast EXCEPT !.op = "populate", !.zone = zn, !.exists = r.exists,
                              !.added = r.added, !.error = r.error]

Populate(zn) ==
    /\ Idle
    /\ _client # "none"
    /\ Populated(populate(St, zn), zn)
    /\ UNCHANGED <<_backend, _client, _strategy, fault, avars, cvars>>

\* the provider's fields and the caller's view after _apply ended in st
Applied(st, zn, plan) ==
    /\ Commit(st)
    /\ last' = [NoLast EXCEPT !.op = "apply", !.zone = zn, !.plan = plan, !.error = st.err]

Apply(zn, plan) ==
    /\ Idle
    /\ _client # "none"
    /\ Applied(_apply(_backend, St, zn, plan), zn, plan)
    /\ UNCHANGED <<_backend, _client, _strategy, fault, avars, cvars>>

\* the caller takes the result; the log of the finished operation is dropped
Return ==
    /\ ~Idle
    /\ last' = NoLast
    /\ calls' = <<>>
    /\ UNCHANGED <<_backend, _client, _strategy, _zone_records, _zone_metadata, _zone_name_to_id, remote, fault,
                   zstate, zttl, rrsets, caps, alast, cvars>>

\* the remote side changes behind the provider's back: an absent zone appears,
\* or the records of an existing zone change
RemoteChange(zn) ==
    /\ Idle
    /\ \E z \in RemoteZone(zn) :
          /\ z.exists
          /\ z # remote[zn]
          /\ remote' = [remote EXCEPT ![zn] = z]
    /\ UNCHANGED <<_backend, _client, _strategy, _zone_records, _zone_metadata, _zone_name_to_id, fault, calls, last,
                   zstate, zttl, rrsets, caps, alast, cvars>>

(***************************************************************************)
(* RRSet adapter: the state machine.  One zone of the hcloud account; each  *)
(* adapter call is one step, and alast keeps the call's arguments, its      *)
(* outcome and the RRSets it found until the caller returns.                *)
(***************************************************************************)
Names == {"", "www"}
Types == {"A", "TXT"}
Payloads ==
    { [values |-> <<VA>>, ttl |-> 300],
      [values |-> <<VB, VA>>, ttl |-> 600] }

R1 == <<"r", "1">>
R2 == <<"r", "2">>
RX == <<"r", "x">>

\* the zones of the unit tests' setUp: an empty zone, a zone with an apex A
\* and a TXT RRSet, and a zone whose apex RRSet is named '@' and has no ttl
ZoneFixtures ==
    { <<>>,
      <<RR(R1, "", "A", 300, <<VA>>), RR(R2, "www", "TXT", 600, <<VA, VB>>)>>,
      <<RR(R1, "@", "A", 0, <<VA, VB>>)>> }

\* the synthetic ids a caller may hand to zone_record_delete
RecordIds ==
    { synthetic_id(id, v) : id \in {R1, R2, RX} \cup { NewId(k) : k \in 0..MaxRRSets },
                            v \in {VA, VB} }

AIdle == alast.op = "idle"

InitAdapter ==
    /\ paging = NoPaging
    /\ http = NoHttp
    /\ race = NoRace
    /\ \/ zstate = "visible" /\ rrsets \in ZoneFixtures
       \/ zstate = "absent" /\ rrsets = <<>>
    /\ zttl \in {0, 7200}
    /\ caps = DefaultCaps
    /\ alast = NoALast

\* the provider is constructed on the hcloud backend and not used
InitProviderIdle ==
    /\ _backend = "hcloud"
    /\ _client = _create_client(_backend, TRUE).client
    /\ _strategy = _create_strategy(_backend)
    /\ _zone_records = <<>>
    /\ _zone_metadata = <<>>
    /\ _zone_name_to_id = <<>>
    /\ remote = [zn \in ZoneNames |-> [exists |-> FALSE, ttl |-> 0, records |-> <<>>]]
    /\ fault = NoFault
    /\ calls = <<>>
    /\ last = NoLast

ZoneCreate(shown) ==
    /\ AIdle
    /\ zstate = "absent"
    /\ LET r == zone_create(caps, zstate, shown)
       IN /\ zstate' = r.zstate
          /\ alast' = [NoALast EXCEPT !.op = "zone_create", !.result = r.result]
    /\ UNCHANGED <<zttl, rrsets, caps, pvars, cvars>>

\* the provider's read path starts to show the created zone
BecomeVisible ==
    /\ AIdle
    /\ zstate = "pending"
    /\ zstate' = "visible"
    /\ UNCHANGED <<zttl, rrsets, caps, alast, pvars, cvars>>

RrsetUpsert(name, type, pl) ==
    /\ AIdle
    /\ zstate # "absent"
    /\ LET r == rrset_upsert(caps, zstate, rrsets, name, type, pl.values, pl.ttl)
       IN /\ Len(r.rrsets) <= MaxRRSets
          /\ rrsets' = r.rrsets
          /\ alast' = [NoALast EXCEPT !.op = "rrset_upsert", !.name = name, !.type = type,
                                      !.values = pl.values, !.ttl = pl.ttl,
                                      !.result = r.result, !.path = r.path, !.tried = r.tried, !.pre = rrsets]
    /\ UNCHANGED <<zstate, zttl, caps, pvars, cvars>>

\* the caller repeats the rrset_upsert it has just made, with the same arguments
Retry ==
    /\ alast.op = "rrset_upsert"
    /\ alast.result = "ok"
    /\ ~alast.retried
    /\ LET r == rrset_upsert(caps, zstate, rrsets, alast.name, alast.type,
                             alast.values, alast.ttl)
       IN /\ Len(r.rrsets) <= MaxRRSets
          /\ rrsets' = r.rrsets
          /\ alast' = [alast EXCEPT !.result = r.result, !.path = r.path, !.tried = r.tried,
                                    !.pre = rrsets, !.retried = TRUE]
    /\ UNCHANGED <<zstate, zttl, caps, pvars, cvars>>

RrsetDelete(name, type) ==
    /\ AIdle
    /\ zstate = "visible"
    /\ LET r == rrset_delete(caps, zstate, rrsets, name, type)
       IN /\ rrsets' = r.rrsets
          /\ alast' = [NoALast EXCEPT !.op = "rrset_delete", !.name = name, !.type = type,
                                      !.result = r.result, !.path = r.path, !.tried = r.tried, !.pre = rrsets]
    /\ UNCHANGED <<zstate, zttl, caps, pvars, cvars>>

ZoneRecordDelete(rid) ==
    /\ AIdle
    /\ zstate = "visible"
    /\ partition(rid).head \in { rrsets[i].id : i \in 1..Len(rrsets) } \cup {RX}
    /\ LET r == zone_record_delete(caps, zstate, zttl, rrsets, rid)
       IN /\ rrsets' = r.rrsets
          /\ alast' = [NoALast EXCEPT !.op = "zone_record_delete", !.rid = rid,
                                      !.result = r.result, !.path = r.path, !.tried = r.tried, !.pre = rrsets]
    /\ UNCHANGED <<zstate, zttl, caps, pvars, cvars>>

ZoneRecordCreate(name, type, value, ttl) ==
    /\ AIdle
    /\ zstate = "visible"
    /\ LET r == zone_record_create(caps, zstate, rrsets, name, type, value, ttl)
       IN /\ Len(r.rrsets) <= MaxRRSets
          /\ rrsets' = r.rrsets
          /\ alast' = [NoALast EXCEPT !.op = "zone_record_create", !.name = name,
                                      !.type = type, !.values = <<value>>, !.ttl = ttl,
                                      !.result = r.result, !.path = r.path,
                                      !.tried = r.tried, !.pre = rrsets]
    /\ UNCHANGED <<zstate, zttl, caps, pvars, cvars>>

\* zone_records_get(zone_id): the flat records, or the KeyError of the zone lookup
ZoneRecordsGet ==
    /\ AIdle
    /\ zstate # "absent"
    /\ alast' = IF _get_zone_by_id_or_name(zstate) # "zone"
                THEN [NoALast EXCEPT !.op = "zone_records_get", !.result = "KeyError",
                                     !.pre = rrsets]
                ELSE [NoALast EXCEPT !.op = "zone_records_get", !.result = "ok",
                                     !.pre = rrsets,
                                     !.records = zone_records_get(zstate, zttl, rrsets, "z1")]
    /\ UNCHANGED <<zstate, zttl, rrsets, caps, pvars, cvars>>

AReturn ==
    /\ ~AIdle
    /\ alast' = NoALast
    /\ UNCHANGED <<zstate, zttl, rrsets, caps, pvars, cvars>>

NextAdapter ==
    \/ \E shown \in BOOLEAN : ZoneCreate(shown)
    \/ BecomeVisible
    \/ \E name \in Names, type \in Types, pl \in Payloads : RrsetUpsert(name, type, pl)
    \/ Retry
    \/ \E name \in Names, type \in Types : RrsetDelete(name, type)
    \/ \E rid \in RecordIds : ZoneRecordDelete(rid)
    \/ \E name \in Names, type \in Types, value \in {VA, VB}, ttl \in {300, 600} :
          ZoneRecordCreate(name, type, value, ttl)
    \/ ZoneRecordsGet
    \/ AReturn

InitA == InitAdapter /\ InitProviderIdle

SpecAdapter == InitA /\ [][NextAdapter]_vars

\* the call paths an hcloud client can offer, one profile per rung of the
\* ladders: the RRSet object's own methods, the zone's methods in the first or
\* the second shape or in neither, the service's methods likewise, and none
CapsProfiles ==
    { DefaultCaps,
      [DefaultCaps EXCEPT !.rr_update = FALSE, !.rr_delete = FALSE, !.z_create = "plain"],
      [DefaultCaps EXCEPT !.rr_update = FALSE, !.rr_delete = FALSE,
                          !.z_update = "rrset", !.z_delete = "rrset"],
      [DefaultCaps EXCEPT !.rr_update = FALSE, !.rr_delete = FALSE, !.z_create = "neither",
                          !.z_update = "neither", !.z_delete = "neither"],
      [DefaultCaps EXCEPT !.rr_update = FALSE, !.rr_delete = FALSE, !.z_create = "none",
                          !.z_update = "none", !.z_delete = "none"],
      [DefaultCaps EXCEPT !.rr_update = FALSE, !.rr_delete = FALSE, !.z_create = "none",
                          !.z_update = "none", !.z_delete = "none", !.s_create = "zone_id"],
      [DefaultCaps EXCEPT !.rr_update = FALSE, !.rr_delete = FALSE, !.z_create = "none",
                          !.z_update = "none", !.z_delete = "none", !.s_create = "neither"],
      [DefaultCaps EXCEPT !.rr_update = FALSE, !.rr_delete = FALSE, !.z_create = "none",
                          !.z_update = "none", !.z_delete = "none", !.s_create = "none",
                          !.s_update = FALSE, !.s_delete = FALSE] }

\* a visible zone on a client of any profile
InitLadder ==
    /\ paging = NoPaging
    /\ http = NoHttp
    /\ race = NoRace
    /\ zstate = "visible"
    /\ rrsets \in ZoneFixtures
    /\ zttl \in {0, 7200}
    /\ caps \in CapsProfiles
    /\ alast = NoALast

InitL == InitLadder /\ InitProviderIdle

NextLadder ==
    \/ \E name \in Names, type \in Types, pl \in Payloads : RrsetUpsert(name, type, pl)
    \/ \E name \in Names, type \in Types : RrsetDelete(name, type)
    \/ \E rid \in RecordIds : ZoneRecordDelete(rid)
    \/ AReturn

SpecLadder == InitL /\ [][NextLadder]_vars

(***************************************************************************)
(* Codec: the listing of zone b is one group of wire values; populate       *)
(* decodes it and the decoded records are applied back as creations.        *)
(***************************************************************************)
RECURSIVE creations(_)
\* a plan that creates every record of a set
creations(recs) ==
    IF recs = {} THEN <<>>
    ELSE LET r == CHOOSE x \in recs : TRUE
         IN <<Create(r)>> \o creations(recs \ {r})

InitCodec ==
    /\ _backend \in {"dnsapi", "hcloud"}
    /\ _client = _create_client(_backend, TRUE).client
    /\ _strategy = _create_strategy(_backend)
    /\ _zone_records = <<>>
    /\ _zone_metadata = <<>>
    /\ _zone_name_to_id = <<>>
    /\ \E l \in CodecListing(ZoneIdOf(ZB)) :
          remote = [zn \in ZoneNames |->
                      IF zn = ZB THEN [exists |-> TRUE, ttl |-> 3600, records |-> l]
                      ELSE [exists |-> FALSE, ttl |-> 0, records |-> <<>>]]
    /\ fault = NoFault
    /\ calls = <<>>
    /\ last = NoLast
    /\ InitAdapterIdle

Resynced(st, plan) ==
    /\ Commit(st)
    /\ last' = [last EXCEPT !.op = "resync", !.plan = plan, !.error = st.err]

\* the records populate gave are applied as a plan of creations
Resync ==
    /\ last.op = "populate"
    /\ last.error = ""
    /\ last.added # {}
    /\ Resynced(_apply(_backend, St, last.zone, creations(last.added)), creations(last.added))
    /\ UNCHANGED <<_backend, _client, _strategy, fault, avars, cvars>>

NextCodec ==
    \/ \E zn \in ZoneNames : Populate(zn)
    \/ Resync
    \/ Return

SpecCodec == InitCodec /\ [][NextCodec]_vars

(***************************************************************************)
(* Client failures: one kind of client call raises an exception other than  *)
(* HetznerClientNotFound, in every call of that kind.                       *)
(***************************************************************************)
Faults ==
    { [at |-> "zone_get", error |-> e, skip |-> 0] :
        e \in {"HetznerClientUnauthorized", "HetznerClientException", "IndexError",
               "KeyError", "TypeError"} }
    \cup { [at |-> at, error |-> "HetznerClientUnauthorized", skip |-> 0] :
             at \in {"zone_records_get", "zone_create", "write"} }

\* plans of at most one change
FaultPlans == {<<>>} \cup { <<c>> : c \in {c \in Changes : SameKey(c)} }

InitFault ==
    /\ _backend \in {"dnsapi", "hcloud"}
    /\ _client = _create_client(_backend, TRUE).client
    /\ _strategy = _create_strategy(_backend)
    /\ _zone_records = <<>>
    /\ _zone_metadata = <<>>
    /\ _zone_name_to_id = <<>>
    /\ remote \in [ZoneNames -> UNION { RemoteZone(zn) : zn \in ZoneNames }]
    /\ \A zn \in ZoneNames : remote[zn] \in RemoteZone(zn)
    /\ remote[ZB].exists
    /\ fault \in Faults
    /\ calls = <<>>
    /\ last = NoLast
    /\ InitAdapterIdle

NextFault ==
    \/ \E zn \in ZoneNames : Populate(zn)
    \/ \E zn \in ZoneNames, plan \in FaultPlans : Apply(zn, plan)
    \/ Return

SpecFault == InitFault /\ [][NextFault]_vars

(***************************************************************************)
(* A write that raises in the middle of a plan: the first fault.skip writes  *)
(* of an apply go through and the next one raises.                          *)
(***************************************************************************)
InitAbort ==
    /\ _backend \in {"dnsapi", "hcloud"}
    /\ _client = _create_client(_backend, TRUE).client
    /\ _strategy = _create_strategy(_backend)
    /\ _zone_records = <<>>
    /\ _zone_metadata = <<>>
    /\ _zone_name_to_id = <<>>
    /\ remote \in [ZoneNames -> UNION { RemoteZone(zn) : zn \in ZoneNames }]
    /\ \A zn \in ZoneNames : remote[zn] \in RemoteZone(zn)
    /\ remote[ZB].exists
    /\ fault \in { [at |-> "write", error |-> "HetznerClientException", skip |-> n] :
                     n \in 0..MaxChanges }
    /\ calls = <<>>
    /\ last = NoLast
    /\ InitAdapterIdle

NextAbort ==
    \/ \E zn \in ZoneNames : Populate(zn)
    \/ \E zn \in ZoneNames, plan \in Plans : Apply(zn, plan)
    \/ Return

SpecAbort == InitAbort /\ [][NextAbort]_vars

Init == InitProvider /\ InitAdapterIdle

Next ==
    \/ \E zn \in ZoneNames : Populate(zn)
    \/ \E zn \in ZoneNames, plan \in Plans : Apply(zn, plan)
    \/ Return
    \/ \E zn \in ZoneNames : RemoteChange(zn)

Spec == Init /\ [][Next]_vars

(***************************************************************************)
(* Properties of the provider (specification Spec)                          *)
(***************************************************************************)
\* indices of the client calls the finished operation made for change k
CallsOf(log, k) == { i \in DOMAIN log : log[i].chg = k }
\* ... those of them that change something on the provider's side
WritesOf(log, k) ==
    { i \in CallsOf(log, k) : log[i].op \in MutationOps \cup {"zone_create"} }

\* the wire form of the values of the plan's records: "\;" is sent as ";"
Wire(values) == [k \in DOMAIN values |-> IF values[k] = V3 THEN W3 ELSE values[k]]

C2_DeleteThenCreate ==
    [][ (last'.op = "apply" /\ _backend = "dnsapi") =>
          LET zn == last'.zone
              cached == IF zn \in DOMAIN _zone_records THEN _zone_records[zn]
                        ELSE remote'[zn].records
          IN \A k \in DOMAIN last'.plan :
                last'.plan[k].kind = "Update" =>
                   LET old == last'.plan[k].existing
                       new == last'.plan[k].new
                       hits == { j \in DOMAIN cached :
                                   cached[j].name = old.name /\ cached[j].type = old.type }
                       dels == { i \in WritesOf(calls', k) : calls'[i].op = "zone_record_delete" }
                       adds == { i \in WritesOf(calls', k) : calls'[i].op = "zone_record_create" }
                   IN /\ WritesOf(calls', k) = dels \cup adds
                      /\ Cardinality(dels) = Cardinality(hits)
                      /\ \A j \in hits : \E i \in dels : calls'[i].id = cached[j].id
                      /\ \A i \in dels : \E j \in hits : calls'[i].id = cached[j].id
                      /\ Cardinality(adds) = Len(new.values)
                      /\ \A v \in DOMAIN new.values :
                            \E i \in adds :
                               /\ calls'[i].value = Wire(new.values)[v]
                               /\ calls'[i].name = new.name
                               /\ calls'[i].type = new.type
                               /\ calls'[i].ttl = new.ttl
                               /\ Cardinality({ j \in adds : j < i }) = v - 1
                      /\ \A i \in dels, j \in adds : i < j ]_vars

\* C2 happens: an Update has been applied on the dnsapi backend with two
\* deletes, then two creates, in a zone that lists records of other names too
C2_Witness ==
    /\ last.op = "apply"
    /\ _backend = "dnsapi"
    /\ \E k \in DOMAIN last.plan :
          /\ last.plan[k].kind = "Update"
          /\ Cardinality({ i \in WritesOf(calls, k) : calls[i].op = "zone_record_delete" }) = 2
          /\ Cardinality({ i \in WritesOf(calls, k) : calls[i].op = "zone_record_create" }) = 2
          /\ Len(remote[last.zone].records) > 2

\* C5: apply resolves the zone before any change.  When the lookup does not
\* find the zone, zone_create is called exactly once, with the zone name less
\* its trailing dot, and every mutation call carries the id it returned; when
\* the lookup finds the zone, zone_create is not called.  No mutation call
\* comes before the lookup's or the creation's call.
C5_ResolveThenDispatch ==
    [][ last'.op = "apply" =>
          LET zn == last'.zone
              NotFound == zn \notin DOMAIN _zone_name_to_id /\ ~remote[zn].exists
              creates == { i \in DOMAIN calls' : calls'[i].op = "zone_create" }
              resolves == creates \cup { i \in DOMAIN calls' :
                                           calls'[i].op = "zone_get" /\ calls'[i].chg = 0 }
              muts == { i \in DOMAIN calls' : calls'[i].op \in MutationOps }
          IN /\ NotFound =>
                  /\ Cardinality(creates) = 1
                  /\ \A i \in creates : calls'[i].zname \o <<".">> = zn
                  /\ \A j \in muts : calls'[j].zone_id = ZoneIdOf(zn)
             /\ ~NotFound =>
                  /\ creates = {}
                  /\ \A j \in muts : calls'[j].zone_id = ZoneIdOf(zn)
             /\ zn \notin DOMAIN _zone_name_to_id => resolves # {}
             /\ \A i \in resolves, j \in muts : i < j ]_vars

\* C5 happens: an apply has created the zone and then made a mutation call
C5_Witness ==
    /\ last.op = "apply"
    /\ \E i, j \in DOMAIN calls :
          /\ calls[i].op = "zone_create"
          /\ calls[j].op \in MutationOps
          /\ i < j

\* C6: when apply has processed a plan for zone Z, Z has no entry in the record
\* cache and the entries of the other zones are as they were; a populate of a
\* zone that has no entry, and that the lookup finds, asks the client for the
\* record listing and takes what the client answers now.
C6_ApplyEvictsRecordCache ==
    [][ /\ last'.op = "apply" =>
             /\ last'.zone \notin DOMAIN _zone_records'
             /\ \A z \in ZoneNames \ {last'.zone} :
                   /\ z \in DOMAIN _zone_records' <=> z \in DOMAIN _zone_records
                   /\ z \in DOMAIN _zone_records => _zone_records'[z] = _zone_records[z]
        /\ (/\ last'.op = "populate"
            /\ last'.zone \notin DOMAIN _zone_records
            /\ remote[last'.zone].exists) =>
             /\ \E i \in DOMAIN calls' :
                   /\ calls'[i].op = "zone_records_get"
                   /\ calls'[i].zone_id = ZoneIdOf(last'.zone)
             /\ _zone_records'[last'.zone] = remote[last'.zone].records ]_vars

\* C6 happens: an apply that listed the zone's records while it ran has ended,
\* the zone has no cache entry and the other zone still has its entry
C6_Witness ==
    /\ last.op = "apply"
    /\ \E i \in DOMAIN calls : calls[i].op = "zone_records_get"
    /\ last.zone \notin DOMAIN _zone_records
    /\ \E z \in ZoneNames \ {last.zone} :
          z \in DOMAIN _zone_records /\ _zone_records[z] # <<>>

\* C7: populate of a zone the lookup does not find adds no record, ends
\* normally with exists = false and caches nothing for the zone; populate of a
\* zone the lookup finds answers true, also when the zone lists no record.
C7_PopulateMissingZone ==
    [][ last'.op = "populate" =>
          LET zn == last'.zone
              NotFound == zn \notin DOMAIN _zone_name_to_id /\ ~remote[zn].exists
          IN /\ NotFound =>
                  /\ last'.added = {}
                  /\ last'.exists = FALSE
                  /\ zn \notin DOMAIN _zone_records'
                  /\ zn \notin DOMAIN _zone_name_to_id'
                  /\ _zone_metadata' = _zone_metadata
             /\ ~NotFound => last'.exists = TRUE ]_vars

\* C7 happens: a populate has asked for a zone the provider does not have
C7_Witness ==
    /\ last.op = "populate"
    /\ ~remote[last.zone].exists
    /\ \E i \in DOMAIN calls : calls[i].op = "zone_get"
    /\ last.exists = FALSE

(***************************************************************************)
(* Properties of the RRSet adapter (specification SpecAdapter)              *)
(***************************************************************************)
\* the apex is written "" by callers and "@" by the provider
Apex(name) == name \in {"", "@"}
SameName(a, b) == a = b \/ (Apex(a) /\ Apex(b))

\* C3: rrset_upsert with the name "" and a type T, on a zone whose one apex
\* RRSet of type T is named "@", updates that RRSet: afterwards the zone holds
\* exactly one apex RRSet of type T and it carries the requested values.
C3_ApexUpsertSingleRRSet ==
    LET T == alast.type
        was == { i \in DOMAIN alast.pre : Apex(alast.pre[i].name) /\ alast.pre[i].type = T }
        now == { i \in DOMAIN rrsets : Apex(rrsets[i].name) /\ rrsets[i].type = T }
    IN (/\ alast.op = "rrset_upsert"
        /\ alast.result = "ok"
        /\ alast.name = ""
        /\ Cardinality(was) = 1
        /\ \A i \in was : alast.pre[i].name = "@") =>
           /\ Cardinality(now) = 1
           /\ \A i \in now : rrsets[i].values = alast.values

\* C4: a rrset_upsert made right after zone_create, while the provider's read
\* path does not show the new zone yet, succeeds.
C4_UpsertAfterZoneCreate ==
    (alast.op = "rrset_upsert" /\ zstate = "pending") => alast.result = "ok"

\* C8: rrset_upsert(zone, name, type, values, ttl).  With no RRSet of that name
\* and type in the zone, one RRSet with exactly these values and this ttl is
\* added and the RRSets the zone held are unchanged; with such an RRSet in the
\* zone, its values become exactly the given list, no RRSet is added and every
\* other RRSet is unchanged.
C8_UpsertCreatesOrReplaces ==
    LET pre == alast.pre
        hit == { i \in DOMAIN pre :
                   SameName(pre[i].name, alast.name) /\ pre[i].type = alast.type }
    IN (alast.op = "rrset_upsert" /\ alast.result = "ok") =>
          /\ hit = {} =>
                /\ Len(rrsets) = Len(pre) + 1
                /\ SubSeq(rrsets, 1, Len(pre)) = pre
                /\ SameName(rrsets[Len(rrsets)].name, alast.name)
                /\ rrsets[Len(rrsets)].type = alast.type
                /\ rrsets[Len(rrsets)].values = alast.values
                /\ rrsets[Len(rrsets)].ttl = alast.ttl
          /\ hit # {} =>
                /\ Len(rrsets) = Len(pre)
                /\ \A i \in DOMAIN pre :
                      IF i \in hit
                      THEN /\ rrsets[i].values = alast.values
                           /\ rrsets[i].id = pre[i].id
                           /\ rrsets[i].type = pre[i].type
                      ELSE rrsets[i] = pre[i]

\* C9: rrset_upsert made a second time with the same arguments leaves the
\* zone's RRSets as the first call left them.
C9_UpsertIdempotent ==
    (alast.op = "rrset_upsert" /\ alast.retried /\ alast.result = "ok") =>
        rrsets = alast.pre

C11_DeletePerMatchingRecord ==
    [][ (last'.op = "apply" /\ _backend = "dnsapi") =>
          LET zn == last'.zone
              cached == IF zn \in DOMAIN _zone_records THEN _zone_records[zn]
                        ELSE remote'[zn].records
          IN \A k \in DOMAIN last'.plan :
                last'.plan[k].kind = "Delete" =>
                   LET old == last'.plan[k].existing
                       hits == { j \in DOMAIN cached :
                                   cached[j].name = old.name /\ cached[j].type = old.type }
                       mine == WritesOf(calls', k)
                   IN /\ \A i \in mine :
                            /\ calls'[i].op = "zone_record_delete"
                            /\ calls'[i].zone_id = ZoneIdOf(zn)
                            /\ \E j \in hits : calls'[i].id = cached[j].id
                      /\ \A j \in hits : \E i \in mine : calls'[i].id = cached[j].id
                      /\ Cardinality(mine) = Cardinality(hits) ]_vars

\* C11 happens: a Delete of the TXT record "www" has been applied on the dnsapi
\* backend to a zone listing two TXT values of that name beside other records
C11_Witness ==
    /\ last.op = "apply"
    /\ _backend = "dnsapi"
    /\ \E k \in DOMAIN last.plan :
          /\ last.plan[k].kind = "Delete"
          /\ last.plan[k].existing.type = "TXT"
          /\ Cardinality(WritesOf(calls, k)) = 2
          /\ Len(remote[last.zone].records) > 2

\* C12: on the dnsapi backend a Create change of a record with N values makes
\* exactly N zone_record_create calls, the k-th carrying the k-th value, each
\* with the zone id and the record's name, type and ttl, and deletes nothing.
C12_CreatePerValue ==
    (last.op = "apply" /\ _backend = "dnsapi") =>
        \A k \in DOMAIN last.plan :
            last.plan[k].kind = "Create" =>
                LET new == last.plan[k].new
                    mine == WritesOf(calls, k)
                IN /\ Cardinality(mine) = Len(new.values)
                   /\ \A i \in mine :
                         /\ calls[i].op = "zone_record_create"
                         /\ calls[i].zone_id = ZoneIdOf(last.zone)
                         /\ calls[i].name = new.name
                         /\ calls[i].type = new.type
                         /\ calls[i].ttl = new.ttl
                         /\ calls[i].value =
                               Wire(new.values)[Cardinality({ j \in mine : j < i }) + 1]

\* C12 happens: a Create of a record of two different values has been applied
\* on the dnsapi backend
C12_Witness ==
    /\ last.op = "apply"
    /\ _backend = "dnsapi"
    /\ \E k \in DOMAIN last.plan :
          /\ last.plan[k].kind = "Create"
          /\ Len(last.plan[k].new.values) = 2
          /\ \E i, j \in WritesOf(calls, k) : calls[i].value # calls[j].value

\* C13: on the hcloud backend a Delete change makes exactly one mutation call,
\* rrset_delete(zone id, existing.name, existing.type), however many values the
\* zone lists for that name and type.
C13_OneRrsetDeletePerChange ==
    (last.op = "apply" /\ _backend = "hcloud") =>
        \A k \in DOMAIN last.plan :
            last.plan[k].kind = "Delete" =>
                /\ Cardinality(WritesOf(calls, k)) = 1
                /\ \A i \in WritesOf(calls, k) :
                      /\ calls[i].op = "rrset_delete"
                      /\ calls[i].zone_id = ZoneIdOf(last.zone)
                      /\ calls[i].name = last.plan[k].existing.name
                      /\ calls[i].type = last.plan[k].existing.type

\* C13 happens: a Delete of a record of two values has been applied on the
\* hcloud backend to a zone that lists records
C13_Witness ==
    /\ last.op = "apply"
    /\ _backend = "hcloud"
    /\ \E k \in DOMAIN last.plan :
          /\ last.plan[k].kind = "Delete"
          /\ Len(last.plan[k].existing.values) = 2
          /\ remote[last.zone].records # <<>>
          /\ WritesOf(calls, k) # {}

\* the mutation calls a change of each kind may make
OpsOfKind(kind) ==
    CASE kind = "Create" -> {"zone_record_create", "rrset_upsert"}
      [] kind = "Delete" -> {"zone_record_delete", "rrset_delete"}
      [] kind = "Update" -> {"zone_record_delete", "zone_record_create", "rrset_upsert"}

\* C14: apply dispatches each change of the plan once, in plan order, to the
\* strategy operation of its kind: in the call log the calls of change i all
\* come before the calls of change i+1, the mutation calls of a change are
\* those of its kind, and a change is not dispatched twice (one upsert or one
\* rrset_delete on hcloud, one create per value on dnsapi).
C14_DispatchInPlanOrder ==
    last.op = "apply" =>
        /\ \A i, j \in DOMAIN calls : i < j => calls[i].chg <= calls[j].chg
        /\ \A i \in DOMAIN calls : calls[i].chg \in 0..Len(last.plan)
        /\ \A k \in DOMAIN last.plan :
              LET c == last.plan[k]
                  mine == WritesOf(calls, k)
                  adds == { i \in mine : calls[i].op = "zone_record_create" }
              IN /\ \A i \in mine : calls[i].op \in OpsOfKind(c.kind)
                 /\ _backend = "hcloud" => Cardinality(mine) = 1
                 /\ (_backend = "dnsapi" /\ c.kind # "Delete") =>
                        Cardinality(adds) = Len(c.new.values)

\* C14 happens: a plan of a Delete followed by a Create has been applied and
\* both changes have made their calls
C14_Witness ==
    /\ last.op = "apply"
    /\ Len(last.plan) = 2
    /\ last.plan[1].kind = "Delete"
    /\ last.plan[2].kind = "Create"
    /\ WritesOf(calls, 1) # {}
    /\ WritesOf(calls, 2) # {}

(***************************************************************************)
(* Codec claims (SpecCodec)                                                 *)
(***************************************************************************)
\* the rrset_upsert calls of a finished resync, with the record each was made for
UpsertsOf(type) ==
    { i \in DOMAIN calls : calls[i].op = "rrset_upsert" /\ calls[i].type = type }
RecordOf(i) == last.plan[calls[i].chg].new
ResyncDone == last.op = "resync" /\ _backend = "hcloud"

\* a text without double quote and backslash: quoting adds nothing but the quotes
PlainText(v) == \A k \in DOMAIN v : v[k] \notin {"\"", "\\"}

\* the entry the contract gives a plain TXT value: chunks of at most 255
\* characters, each between double quotes, one space between two chunks
ChunkedEntry(v) ==
    LET n == Len(v)
        m == IF n = 0 THEN 1 ELSE (n + 254) \div 255
    IN [i \in 1..(n + 2 * m + (m - 1)) |->
          LET b == (i - 1) \div 258
              o == (i - 1) % 258
          IN IF o = 0 THEN "\""
             ELSE IF o <= 255 /\ b * 255 + o <= n THEN v[b * 255 + o]
             ELSE IF o = 257 THEN " "
             ELSE "\""]

\* C15: on the hcloud backend every logical TXT value becomes one entry of the
\* rrset_upsert value list: a value of at most 255 characters is one quoted
\* segment, a longer one is cut into consecutive chunks of at most 255
\* characters, each quoted, joined by one space (256 characters: 255 and 1).
C15_TxtChunkedByLength ==
    ResyncDone =>
        \A i \in UpsertsOf("TXT") :
            /\ Len(calls[i].values) = Len(RecordOf(i).values)
            /\ \A k \in DOMAIN RecordOf(i).values :
                  LET v == unescape_semicolon(RecordOf(i).values[k])
                  IN PlainText(v) => calls[i].values[k] = ChunkedEntry(v)

IsQuoted(v) == Len(v) >= 2 /\ v[1] = "\"" /\ v[Len(v)] = "\""

\* C16: on the hcloud backend the value list of a TXT rrset_upsert has one
\* entry per logical value, every entry starts and ends with a double quote, a
\* value that is already quoted is sent as it is, and the values of the other
\* types are sent unquoted, as the encoder gave them.
C16_TxtEntriesQuoted ==
    ResyncDone =>
        /\ \A i \in UpsertsOf("TXT") :
              /\ Len(calls[i].values) = Len(RecordOf(i).values)
              /\ \A k \in DOMAIN calls[i].values :
                    /\ IsQuoted(calls[i].values[k])
                    /\ IsQuoted(unescape_semicolon(RecordOf(i).values[k]))
                          => calls[i].values[k] = unescape_semicolon(RecordOf(i).values[k])
        /\ \A type \in SUPPORTS \ {"TXT"} : \A i \in UpsertsOf(type) :
              calls[i].values = [k \in DOMAIN params_for(RecordOf(i)) |->
                                    params_for(RecordOf(i))[k].value]

\* the records of the listed group of zone b, and the A record listed after it
PopulateDone == last.op = "populate" /\ last.zone = ZB
GroupOf(type) ==
    LET typed(r) == r.type = type /\ r.name = ""
    IN SelectSeq(remote[ZB].records, typed)
WireOf(type) == [k \in DOMAIN GroupOf(type) |-> GroupOf(type)[k].value]
Trailing == Rec("www", "A", 600, <<V1>>)

Caa(flags, tag, value) == [flags |-> flags, tag |-> tag, value |-> value]

\* what the contract gives each listed CAA text: the first three tokens, or the
\* placeholder around the raw text
CaaExpected(raw) ==
    CASE raw \in {CAA_quoted, CAA_unquoted} -> Caa(0, CAA_issue, <<"c", "a", ".", "x">>)
      [] raw = CAA_wild ->
            Caa(128, <<"i", "s", "s", "u", "e", "w", "i", "l", "d">>, <<";">>)
      [] raw = CAA_four_tokens -> Caa(0, CAA_issue, <<"a">>)
      [] OTHER -> Caa(0, CAA_issue, raw)

\* C17: the CAA decode raises for no value text: at least three tokens with an
\* integer first token give {flags, tag, value} from the first three tokens,
\* any other text gives the placeholder {0, issue, raw text}; the other values
\* of the group and the records listed after it are decoded all the same.
C17_CaaDecodeNeverRaises ==
    (PopulateDone /\ GroupOf("CAA") # <<>>) =>
        /\ last.error = ""
        /\ Rec("", "CAA", 300, [k \in DOMAIN WireOf("CAA") |-> CaaExpected(WireOf("CAA")[k])])
              \in last.added
        /\ Trailing \in last.added

C17_Witness ==
    /\ PopulateDone
    /\ WireOf("CAA") = <<CAA_open_quote, CAA_quoted>>
    /\ Rec("", "CAA", 300, << Caa(0, CAA_issue, CAA_open_quote),
                              Caa(0, CAA_issue, <<"c", "a", ".", "x">>) >>) \in last.added

\* the listed DS and TLSA texts that do not have the four rdata fields
MalformedRdata == {DS_three_fields, DS_five_fields, DS_spaced, TLSA_three_fields}

\* C18: a malformed DS or TLSA value is a hard failure: populate ends with the
\* decode error, it returns nothing, and no record of the group is added, be it
\* with a placeholder value or without the malformed one.
C18_DsTlsaHardFailure ==
    \A type \in {"DS", "TLSA"} :
        (PopulateDone /\ \E k \in DOMAIN WireOf(type) : WireOf(type)[k] \in MalformedRdata) =>
            /\ last.error # ""
            /\ ~last.exists
            /\ \A r \in last.added : r.type # type

C18_Witness ==
    /\ PopulateDone
    /\ WireOf("DS") = <<DS_good, DS_three_fields>>
    /\ last.error = "RrParseError"
    /\ last.added = {}

\* the value texts a finished resync sent for the apex group of a type, in the
\* order of the calls: the value list of the rrset_upsert, or the values of the
\* zone_record_create calls
SentFor(type) ==
    IF _backend = "hcloud"
    THEN LET ups == { i \in UpsertsOf(type) : calls[i].name = "" }
         IN IF ups = {} THEN <<>> ELSE calls[CHOOSE i \in ups : TRUE].values
    ELSE LET made(c) == c.op = "zone_record_create" /\ c.type = type /\ c.name = ""
             cs == SelectSeq(calls, made)
         IN [k \in DOMAIN cs |-> cs[k].value]

\* the listed texts that are well-formed rdata of their type
WellFormedWire ==
    (UNION { WireValues(type) : type \in SUPPORTS })
    \ (MalformedRdata \cup {CAA_two_tokens, CAA_flags_text, CAA_open_quote, CAA_empty,
                            CAA_four_tokens, MX_tabbed})

\* the text each well-formed listed text is equivalent to: the target with its
\* trailing dot, the fields one space apart, the CAA value between quotes
Normalized(raw) ==
    CASE raw = NS_bare -> NS_dotted
      [] raw \in {MX_bare, MX_spaced} -> <<"1", "0", " ", "m", ".", "x", ".">>
      [] raw = MX_padded -> <<"5", " ", "m", ".", "x", ".">>
      [] raw = MX_at -> MX_at
      [] raw \in {SRV_bare, SRV_spaced} -> <<"1", " ", "2", " ", "3", " ", "t", ".", "x", ".">>
      [] raw = CAA_unquoted -> CAA_quoted
      [] OTHER -> raw

KindOf(op) == IF op \in MutationOps THEN "write" ELSE op

\* the operation made a call of the kind that raises
FaultHit ==
    /\ last.op \in {"populate", "apply"}
    /\ \E i \in DOMAIN calls : KindOf(calls[i].op) = fault.at

\* C20: during populate and apply a client failure other than NotFound reaches
\* the caller as it was raised; a failure of the zone lookup never ends in
\* populate returning an empty zone, nor in apply creating the zone.
C20_ClientFailureReachesCaller ==
    FaultHit =>
        /\ last.error = fault.error
        /\ fault.at = "zone_get" => \A i \in DOMAIN calls : calls[i].op # "zone_create"

(***************************************************************************)
(* Construction: the provider is built from its keyword arguments, then     *)
(* used.                                                                    *)
(***************************************************************************)
InitConstruct ==
    /\ _backend = ""
    /\ _client = "none"
    /\ _strategy = "none"
    /\ _zone_records = <<>>
    /\ _zone_metadata = <<>>
    /\ _zone_name_to_id = <<>>
    /\ remote \in [ZoneNames -> UNION { RemoteZone(zn) : zn \in ZoneNames }]
    /\ \A zn \in ZoneNames : remote[zn] \in RemoteZone(zn)
    /\ remote[ZB].exists
    /\ fault = NoFault
    /\ calls = <<>>
    /\ last = NoLast
    /\ InitAdapterIdle

\* the provider's fields and the caller's view after __init__ gave r
Constructed(r, kwargs) ==
    /\ _backend' = r.backend
    /\ _client' = r.client
    /\ _strategy' = r.strategy
    /\ last' = [NoLast EXCEPT !.op = "construct", !.kwargs = kwargs, !.error = r.err,
                              !.message = r.message]

\* HetznerProvider(id, token, **kwargs); after a raise the caller may try again
Construct(kwargs, importable) ==
    /\ Idle
    /\ _client = "none"
    /\ Constructed(__init__(kwargs, importable), kwargs)
    /\ UNCHANGED <<_zone_records, _zone_metadata, _zone_name_to_id, remote, fault, calls, avars, cvars>>

NextConstruct ==
    \/ \E kwargs \in Kwargs, importable \in BOOLEAN : Construct(kwargs, importable)
    \/ \E zn \in ZoneNames : Populate(zn)
    \/ Return

SpecConstruct == InitConstruct /\ [][NextConstruct]_vars

\* C21: a backend selector other than 'dnsapi' and 'hcloud' makes the
\* construction fail with an error whose message names the value given and the
\* two allowed values, and neither client nor strategy is built; without a
\* selector the backend is 'dnsapi'.
C21_InvalidBackendFailsConstruction ==
    last.op = "construct" =>
        /\ (last.kwargs.has /\ last.kwargs.backend \notin {"dnsapi", "hcloud"}) =>
              /\ last.error = "ValueError"
              /\ \E i, j, k \in DOMAIN last.message :
                    /\ last.message[i] = last.kwargs.backend
                    /\ last.message[j] = "dnsapi"
                    /\ last.message[k] = "hcloud"
              /\ _client = "none"
              /\ _strategy = "none"
        /\ ~last.kwargs.has =>
              /\ last.error = ""
              /\ _backend = "dnsapi"
              /\ _client = "HetznerClient"
              /\ _strategy = "DNSAPIStrategy"

C21_Witness ==
    /\ last.op = "construct"
    /\ last.kwargs = [has |-> TRUE, backend |-> "invalid"]
    /\ last.error = "ValueError"
    /\ _client = "none"

(***************************************************************************)
(* Adapter claims, continued (SpecAdapter)                                  *)
(***************************************************************************)
RECURSIVE ValueCount(_)
\* the number of values the RRSets of a list hold together
ValueCount(L) == IF Len(L) = 0 THEN 0 ELSE Len(Head(L).values) + ValueCount(Tail(L))

\* C22: zone_records_get answers one flat record per value of every RRSet of
\* the zone, in RRSet order: id '<rrset id>:<value>', the RRSet's type, its name
\* with '@' given as the empty string, and the RRSet's ttl, else the zone's,
\* else 3600.
C22_FlattenOnePerValue ==
    (alast.op = "zone_records_get" /\ alast.result = "ok") =>
        /\ Len(alast.records) = ValueCount(rrsets)
        /\ \A i \in DOMAIN rrsets : \A k \in DOMAIN rrsets[i].values :
              LET rec == alast.records[ValueCount(SubSeq(rrsets, 1, i - 1)) + k]
              IN /\ rec.id = rrsets[i].id \o <<":">> \o rrsets[i].values[k]
                 /\ rec.value = rrsets[i].values[k]
                 /\ rec.type = rrsets[i].type
                 /\ rec.name # "@"
                 /\ rec.name = (IF rrsets[i].name = "@" THEN "" ELSE rrsets[i].name)
                 /\ rec.ttl = (IF rrsets[i].ttl # 0 THEN rrsets[i].ttl
                               ELSE IF zttl # 0 THEN zttl ELSE 3600)

C22_Witness ==
    /\ alast.op = "zone_records_get"
    /\ zttl = 0
    /\ \E i \in DOMAIN rrsets : rrsets[i].name = "@" /\ rrsets[i].ttl = 0
    /\ Len(alast.records) >= 2
    /\ \A k \in DOMAIN alast.records : alast.records[k].ttl = 3600 /\ alast.records[k].name = ""

\* the ids of the RRSets of a list
IdsOf(L) == { L[i].id : i \in DOMAIN L }

\* the RRSets of a list stored under the apex marker with a given type
ApexOf(L, type) == { i \in DOMAIN L : L[i].name = "@" /\ L[i].type = type }

\* C24: rrset_delete with the empty-string name and type T, on a zone holding
\* an RRSet of type T named '@', removes that RRSet.
C24_ApexDeleteRemoves ==
    (alast.op = "rrset_delete" /\ alast.name = "" /\ alast.result = "ok"
        /\ ApexOf(alast.pre, alast.type) # {}) =>
        \E i \in ApexOf(alast.pre, alast.type) : alast.pre[i].id \notin IdsOf(rrsets)

\* C26: zone_record_delete with a synthetic id whose RRSet-id part is the id of
\* no RRSet of the zone issues no update or delete call, raises nothing and
\* leaves every RRSet as it was.
C26_UnknownIdIsNoOp ==
    (alast.op = "zone_record_delete" /\ partition(alast.rid).head \notin IdsOf(alast.pre)) =>
        /\ alast.result = "ok"
        /\ alast.tried = <<>>
        /\ alast.path = "nothing"
        /\ rrsets = alast.pre

C26_Witness ==
    /\ alast.op = "zone_record_delete"
    /\ partition(alast.rid).head = RX
    /\ Len(alast.pre) = 2
    /\ RX \notin IdsOf(alast.pre)
    /\ rrsets = alast.pre

\* the RRSets of a list a (name, type) addresses, '@' and '' taken as equal
Addressed(L, name, type) ==
    { i \in DOMAIN L : or_at(L[i].name) = or_at(name) /\ L[i].type = type }

\* C28: zone_record_create(zone, name, type, value, ttl) has the effect and
\* result of rrset_upsert(zone, name, type, [value], ttl), and on an existing
\* RRSet for (name, type) the value list becomes [value]: earlier values are
\* replaced, not kept.
C28_CreateIsSingleValueUpsert ==
    (alast.op = "zone_record_create" /\ alast.result = "ok") =>
        /\ alast.values = <<alast.values[1]>>
        /\ LET u == rrset_upsert(caps, zstate, alast.pre, alast.name, alast.type,
                                 alast.values, alast.ttl)
           IN u.rrsets = rrsets /\ u.result = alast.result /\ u.tried = alast.tried
        /\ \A i \in Addressed(alast.pre, alast.name, alast.type) :
              /\ i \in DOMAIN rrsets
              /\ rrsets[i].id = alast.pre[i].id
              /\ rrsets[i].values = alast.values
        /\ Cardinality(Addressed(alast.pre, alast.name, alast.type)) <= 1 =>
              Cardinality(Addressed(rrsets, alast.name, alast.type)) = 1

(***************************************************************************)
(* Call ladders (SpecLadder)                                                *)
(***************************************************************************)
\* C25: rrset_delete removes the whole matching RRSet with one provider delete
\* call and leaves every RRSet of another name or type as it was; without a
\* match it makes no call, raises nothing, and the zone is unchanged.
C25_DeleteFrame ==
    (alast.op = "rrset_delete" /\ alast.result = "ok") =>
        LET hit == Addressed(alast.pre, alast.name, alast.type)
            rest == { i \in DOMAIN alast.pre : i \notin hit }
            keep(r) == ~(or_at(r.name) = or_at(alast.name) /\ r.type = alast.type)
        IN /\ hit = {} => (alast.tried = <<>> /\ rrsets = alast.pre)
           /\ hit # {} =>
                /\ Cardinality({ k \in DOMAIN alast.tried : alast.tried[k].outcome = "ok" }) = 1
                /\ \E i \in hit : alast.pre[i].id \notin IdsOf(rrsets)
           /\ SelectSeq(rrsets, keep) = SelectSeq(alast.pre, keep)

\* the write an adapter call has to make on the RRSets it found
WriteKind ==
    IF alast.op = "rrset_upsert"
    THEN (IF FirstNamed(alast.pre, alast.name, alast.type) = 0 THEN "create" ELSE "update")
    ELSE IF alast.op = "rrset_delete"
    THEN (IF FirstNamed(alast.pre, alast.name, alast.type) = 0 THEN "none" ELSE "delete")
    ELSE IF alast.op = "zone_record_delete"
    THEN LET p == partition(alast.rid)
             t == FirstWithId(alast.pre, p.head)
         IN IF t = 0 THEN "none"
            ELSE IF \A k \in DOMAIN alast.pre[t].values : alast.pre[t].values[k] = p.tail
            THEN "delete" ELSE "update"
    ELSE "none"

\* no object of the client offers a method for a kind of write
NoPath(kind) ==
    \/ kind = "create" /\ caps.z_create = "none" /\ caps.s_create = "none"
    \/ kind = "update" /\ ~caps.rr_update /\ caps.z_update = "none" /\ ~caps.s_update
    \/ kind = "delete" /\ ~caps.rr_delete /\ caps.z_delete = "none" /\ ~caps.s_delete

\* the RRSets two lists of equal length differ in
Differing(L, M) == { i \in DOMAIN L : L[i] # M[i] }

CallCount(log, op) == Cardinality({ i \in DOMAIN log : log[i].op = op })

\* C29: on one provider instance, populate of an existing zone looks the zone
\* up only when no earlier call has, and lists its records only when the list
\* is not cached; afterwards both are cached.  Nothing but an apply of the zone
\* drops its record list, and the apply keeps the zone lookup.  So populates
\* without an apply between them make one lookup and one listing in total, and
\* a populate after an apply makes one new listing and no lookup.
C29_PopulateCallsOncePerEviction ==
    [][ /\ (last'.op = "populate" /\ last.op = "idle" /\ remote[last'.zone].exists) =>
             /\ CallCount(calls', "zone_get") =
                   (IF last'.zone \in DOMAIN _zone_name_to_id THEN 0 ELSE 1)
             /\ CallCount(calls', "zone_records_get") =
                   (IF last'.zone \in DOMAIN _zone_records THEN 0 ELSE 1)
             /\ Len(calls') = CallCount(calls', "zone_get") + CallCount(calls', "zone_records_get")
             /\ last'.zone \in DOMAIN _zone_name_to_id'
             /\ last'.zone \in DOMAIN _zone_records'
        /\ \A z \in ZoneNames :
             /\ z \in DOMAIN _zone_name_to_id =>
                   (z \in DOMAIN _zone_name_to_id' /\ _zone_name_to_id'[z] = _zone_name_to_id[z])
             /\ (z \in DOMAIN _zone_records /\ z \notin DOMAIN _zone_records') =>
                   (last'.op = "apply" /\ last'.zone = z)
        /\ (last'.op = "apply" /\ last.op = "idle") => last'.zone \notin DOMAIN _zone_records'
      ]_vars

\* a populate of a zone that an earlier populate looked up and an apply evicted
\* has ended: it listed the records once and made no lookup
C29_Witness ==
    /\ last.op = "populate"
    /\ last.exists
    /\ Len(calls) = 1
    /\ calls[1].op = "zone_records_get"
    /\ last.zone \in DOMAIN _zone_name_to_id
    /\ last.zone \in DOMAIN _zone_records

(***************************************************************************)
(* Record client: the zone listing and its page loop.  Every pass of the    *)
(* loop is one step; the provider's answer to a request is any status, any  *)
(* list of zones and any next-page value.                                   *)
(***************************************************************************)
MaxPage == 3

PageZones == { <<>>, <<"z1">>, <<"z2", "z3">> }

\* an HTTP response to GET /zones: has says whether meta.pagination.next_page
\* is present and not null
Responses ==
    { [status |-> 200, zones |-> z, has |-> TRUE, next_page |-> n] :
          z \in PageZones, n \in 0..MaxPage }
    \cup { [status |-> 200, zones |-> z, has |-> FALSE, next_page |-> 0] : z \in PageZones }
    \cup { [status |-> c, zones |-> <<>>, has |-> FALSE, next_page |-> 0] : c \in {401, 404, 500} }

\* HetznerClient._do: the exception a response is turned into ("": none)
_do(resp) ==
    IF resp.status = 401 THEN "HetznerClientUnauthorized"
    ELSE IF resp.status = 404 THEN "HetznerClientNotFound"
    ELSE IF resp.status >= 400 THEN "HTTPError"
    ELSE ""

\* a loop that stops only at a missing or zero next page
domains_stop_on_falsy(page, resp) == ~resp.has \/ resp.next_page = 0

\* not next_page or (isinstance(next_page, int) and next_page <= page)
domains_stop(page, resp) ==
    \/ ~resp.has \/ resp.next_page = 0
    \/ resp.next_page <= page

\* one pass of the loop of HetznerClient.domains with the response resp
domains_pass(pg, resp) ==
    IF _do(resp) # ""
    THEN [pg EXCEPT !.pc = "raised", !.error = _do(resp), !.ret = <<>>,
                    !.requested = Append(@, pg.page)]
    ELSE [pg EXCEPT !.pc = IF domains_stop(pg.page, resp) THEN "returned" ELSE "running",
                    !.page = IF domains_stop(pg.page, resp) THEN @ ELSE resp.next_page,
                    !.ret = @ \o resp.zones,
                    !.requested = Append(@, pg.page),
                    !.got = Append(@, resp)]

InitPaging ==
    /\ _backend = "dnsapi"
    /\ _client = _create_client(_backend, TRUE).client
    /\ _strategy = _create_strategy(_backend)
    /\ _zone_records = <<>>
    /\ _zone_metadata = <<>>
    /\ _zone_name_to_id = <<>>
    /\ remote = [zn \in ZoneNames |-> [exists |-> FALSE, ttl |-> 0, records |-> <<>>]]
    /\ fault = NoFault
    /\ calls = <<>>
    /\ last = NoLast
    /\ InitAdapterIdle

\* domains() is called: ret = [], page = 1
DomainsStart ==
    /\ paging.pc = "idle"
    /\ paging' = [NoPaging EXCEPT !.pc = "running", !.page = 1]
    /\ UNCHANGED <<pvars, avars, race, http>>

DomainsRequest(resp) ==
    /\ paging.pc = "running"
    /\ paging' = domains_pass(paging, resp)
    /\ UNCHANGED <<pvars, avars, race, http>>

\* the caller takes the list or the exception
DomainsReturn ==
    /\ paging.pc \in {"returned", "raised"}
    /\ paging' = NoPaging
    /\ UNCHANGED <<pvars, avars, race, http>>

NextPaging ==
    \/ DomainsStart
    \/ \E resp \in Responses : DomainsRequest(resp)
    \/ DomainsReturn

\* the loop is synchronous: while it runs, the next request is made and answered
SpecPagingLive ==
    InitPaging /\ [][NextPaging]_vars /\ WF_vars(\E resp \in Responses : DomainsRequest(resp))

\* the provider says there is no further page after the page just requested
NoFurtherPage(page, resp) == ~resp.has \/ resp.next_page = 0 \/ ~(resp.next_page > page)

PagingTrace ==
    LET req == paging.requested
        got == paging.got
    IN /\ req # <<>> => req[1] = 1
       /\ \A k \in 1..(Len(req) - 1) : req[k] < req[k + 1]
       /\ \A k \in 1..(Len(req) - 1) :
             ~NoFurtherPage(req[k], got[k]) /\ req[k + 1] = got[k].next_page
       /\ paging.pc = "running" =>
             /\ Len(got) = Len(req)
             /\ paging.page = (IF req = <<>> THEN 1 ELSE got[Len(got)].next_page)
             /\ got # <<>> => ~NoFurtherPage(req[Len(req)], got[Len(got)])
       /\ paging.pc = "returned" =>
             /\ Len(got) = Len(req) /\ req # <<>>
             /\ NoFurtherPage(req[Len(req)], got[Len(got)])
             /\ paging.ret = Concat([k \in 1..Len(got) |-> got[k].zones])
       /\ paging.pc = "raised" => Len(got) = Len(req) - 1

Callers == {1, 2}

Caller(pl) == [pc |-> "call", values |-> pl.values, ttl |-> pl.ttl, target |-> NoTarget,
               result |-> ""]

InitRace ==
    /\ InitProviderIdle
    /\ paging = NoPaging
    /\ http = NoHttp
    /\ zstate = "visible"
    /\ zttl = 0
    /\ rrsets \in ZoneFixtures
    /\ caps = DefaultCaps
    /\ alast = NoALast
    /\ \E name \in Names, type \in Types, pl1 \in Payloads, pl2 \in Payloads :
          race = [name |-> name, type |-> type, procs |-> <<Caller(pl1), Caller(pl2)>>,
                  order |-> <<>>, pre |-> rrsets]

\* caller p gets the zone and its RRSets and looks for its target
RaceList(p) ==
    /\ race.procs # <<>>
    /\ race.procs[p].pc = "call"
    /\ race' = IF _get_zone_by_id_or_name(zstate) # "zone"
               THEN [race EXCEPT !.procs[p].pc = "done", !.procs[p].result = "KeyError"]
               ELSE [race EXCEPT !.procs[p].pc = "listed",
                                 !.procs[p].target = upsert_find(rrsets, race.name, race.type)]
    /\ UNCHANGED <<pvars, avars, paging, http>>

\* caller p makes its create or update call
RaceWrite(p) ==
    /\ race.procs # <<>>
    /\ race.procs[p].pc = "listed"
    /\ LET r == upsert_write(caps, rrsets, race.procs[p].target, race.name, race.type,
                             race.procs[p].values, race.procs[p].ttl)
       IN /\ rrsets' = r.rrsets
          /\ race' = [race EXCEPT !.procs[p].pc = "done", !.procs[p].result = r.result,
                                  !.order = Append(@, p)]
    /\ UNCHANGED <<pvars, zstate, zttl, caps, alast, paging, http>>

NextRace ==
    \/ \E p \in Callers : RaceList(p)
    \/ \E p \in Callers : RaceWrite(p)

SpecRace == InitRace /\ [][NextRace]_vars

RaceDone ==
    /\ race.procs # <<>>
    /\ \A p \in Callers : race.procs[p].pc = "done" /\ race.procs[p].result = "ok"

\* the RRSets of the zone the two calls did not find there
CreatedInRace == { i \in DOMAIN rrsets : rrsets[i].id \notin IdsOf(race.pre) }

FlatsOf(list, name, type) ==
    LET same(r) == r.name = name /\ r.type = type
    IN SelectSeq(list, same)

\* the (name, type) pairs of a listing whose type the provider supports
SupportedKeys(list) ==
    { <<list[k].name, list[k].type>> : k \in { j \in DOMAIN list : list[j].type \in SUPPORTS } }

PopulatedZone == last.op = "populate" /\ last.error = "" /\ last.exists

\* C31: populate adds exactly one record per (name, type) group of the listing
\* whose type is supported, holding every value of the group in listing
\* order; records of an unsupported type are skipped and the other groups are
\* added all the same.
C31_OneRecordPerSupportedGroup ==
    PopulatedZone =>
        LET list == _zone_records[last.zone]
        IN /\ Cardinality(last.added) = Cardinality(SupportedKeys(list))
           /\ \A rec \in last.added : <<rec.name, rec.type>> \in SupportedKeys(list)
           /\ \A key \in SupportedKeys(list) :
                 \E rec \in last.added :
                    /\ rec.name = key[1] /\ rec.type = key[2]
                    /\ rec.values = [k \in DOMAIN FlatsOf(list, key[1], key[2]) |->
                                       escape_semicolon(FlatsOf(list, key[1], key[2])[k].value)]

C31_Witness ==
    /\ PopulatedZone
    /\ \E k \in DOMAIN _zone_records[last.zone] : _zone_records[last.zone][k].type = "URI"
    /\ Cardinality(last.added) = 4
    /\ \E rec \in last.added : rec.name = "www" /\ rec.type = "TXT" /\ Len(rec.values) = 2

\* C32: the TTL of a decoded group is the TTL the first flat record of the
\* group carries, and the zone's default TTL when that record carries none;
\* the TTLs of the other flat records of the group play no part, and a group
\* whose records carry different TTLs is decoded without error.
C32_GroupTtlFromFirstRecord ==
    /\ (last.op = "populate" /\ remote[last.zone].exists) => last.error = ""
    /\ PopulatedZone =>
          \A rec \in last.added :
             LET first == FlatsOf(_zone_records[last.zone], rec.name, rec.type)[1]
             IN rec.ttl = (IF first.ttl # 0 THEN first.ttl
                           ELSE _zone_metadata[ZoneIdOf(last.zone)].ttl)

C32_Witness ==
    /\ PopulatedZone
    /\ \E rec \in last.added :
          /\ rec.ttl = 300
          /\ \E k \in DOMAIN _zone_records[last.zone] :
                LET r == _zone_records[last.zone][k]
                IN r.name = rec.name /\ r.type = rec.type /\ r.ttl = 600
    /\ \E rec \in last.added :
          /\ rec.ttl = 3600
          /\ FlatsOf(_zone_records[last.zone], rec.name, rec.type)[1].ttl = 0

(***************************************************************************)
(* MX and SRV decode (SpecCodec)                                            *)
(***************************************************************************)
RECURSIVE WordsFrom(_, _, _)
WordsFrom(s, cur, out) ==
    IF Len(s) = 0 THEN (IF cur = <<>> THEN out ELSE Append(out, cur))
    ELSE IF s[1] \in Whitespace
    THEN WordsFrom(Tail(s), <<>>, IF cur = <<>> THEN out ELSE Append(out, cur))
    ELSE WordsFrom(Tail(s), Append(cur, s[1]), out)

\* the tokens of a text split on whitespace
Words(s) == WordsFrom(s, <<>>, <<>>)

\* a target with one trailing dot, '@' and dotted targets as they are
Dotted(t) == IF t = <<"@">> \/ t[Len(t)] = "." THEN t ELSE Append(t, ".")

MxExpected(raw) ==
    [preference |-> int_of(Words(raw)[1]), exchange |-> Dotted(Words(raw)[Len(Words(raw))])]

SrvExpected(raw) ==
    [priority |-> int_of(Words(raw)[1]), weight |-> int_of(Words(raw)[2]),
     port |-> int_of(Words(raw)[3]), target |-> Dotted(Words(raw)[4])]

\* C33: MX decode splits the value on whitespace, the first token is the
\* preference and the last the exchange; SRV decode takes priority, weight,
\* port and target in that order; the target ends with exactly one dot unless
\* it is '@', and a target that is already dotted is unchanged.
C33_MxSrvDecode ==
    /\ (PopulateDone /\ GroupOf("MX") # <<>>) =>
          /\ last.error = ""
          /\ Rec("", "MX", 300, [k \in DOMAIN WireOf("MX") |-> MxExpected(WireOf("MX")[k])])
                \in last.added
    /\ (PopulateDone /\ GroupOf("SRV") # <<>>) =>
          /\ last.error = ""
          /\ Rec("", "SRV", 300, [k \in DOMAIN WireOf("SRV") |-> SrvExpected(WireOf("SRV")[k])])
                \in last.added

(***************************************************************************)
(* Record client over HTTP.  The API holds the records of one zone under    *)
(* the names it was sent; every request is answered with a status, and the  *)
(* API acts on a request only when it answers 2xx.  `written` keeps, per    *)
(* record held, the name the caller of zone_record_create gave.             *)
(***************************************************************************)
MaxWire == 2

Statuses == {200, 201, 304, 401, 404, 500}

Success(status) == status >= 200 /\ status < 300

WireId(k) == <<"h", Digits[k + 1]>>

\* the id the API gives a created record: one no record it holds has
FreshWireId(recs) ==
    WireId(CHOOSE n \in 0..9 :
             /\ \A i \in DOMAIN recs : recs[i].id # WireId(n)
             /\ \A m \in 0..(n - 1) : \E i \in DOMAIN recs : recs[i].id = WireId(m))

Request(op, status, outcome, sent, result) ==
    [op |-> op, status |-> status, outcome |-> outcome, sent |-> sent, result |-> result]

\* HetznerClient.zone_record_create: POST /records with name or '@'
HetznerClient_zone_record_create(h, zone_id, name, type, value, ttl, status) ==
    LET data == [name |-> or_at(name), ttl |-> ttl, type |-> type, value |-> value,
                 zone_id |-> zone_id]
    IN [records |-> IF Success(status)
                    THEN Append(h.records, [id |-> FreshWireId(h.records), name |-> data.name,
                                            ttl |-> ttl, type |-> type, value |-> value,
                                            zone_id |-> zone_id])
                    ELSE h.records,
        written |-> IF Success(status) THEN Append(h.written, name) ELSE h.written,
        last |-> Request("zone_record_create", status, _do([status |-> status]), <<data>>, <<>>)]

\* HetznerClient.zone_records_get: GET /records, '@' given back as ''.  A
\* response that is not 2xx and passes _do carries no JSON body
HetznerClient_zone_records_get(h, zone_id, status) ==
    IF _do([status |-> status]) # ""
    THEN [h EXCEPT !.last = Request("zone_records_get", status, _do([status |-> status]),
                                    <<>>, <<>>)]
    ELSE IF ~Success(status)
    THEN [h EXCEPT !.last = Request("zone_records_get", status, "JSONDecodeError", <<>>, <<>>)]
    ELSE [h EXCEPT !.last =
            Request("zone_records_get", status, "", <<>>,
                    [k \in DOMAIN h.records |->
                       IF h.records[k].name = "@" THEN [h.records[k] EXCEPT !.name = ""]
                       ELSE h.records[k]])]

\* HetznerClient.zone_record_delete: DELETE /records/{record_id}
HetznerClient_zone_record_delete(h, zone_id, record_id, status) ==
    LET keep == { i \in DOMAIN h.records : h.records[i].id # record_id }
        kept(seq) == [k \in 1..Cardinality(keep) |->
                        seq[CHOOSE i \in keep : Cardinality({ j \in keep : j < i }) = k - 1]]
    IN [records |-> IF Success(status) THEN kept(h.records) ELSE h.records,
        written |-> IF Success(status) THEN kept(h.written) ELSE h.written,
        last |-> Request("zone_record_delete", status, _do([status |-> status]),
                         <<record_id>>, <<>>)]

InitClient ==
    /\ InitPaging

ClientRecordCreate(name, type, value, ttl, status) ==
    /\ http.last.op = "idle"
    /\ Len(http.records) < MaxWire
    /\ http' = HetznerClient_zone_record_create(http, ZoneIdOf(ZB), name, type, value, ttl,
                                                status)
    /\ UNCHANGED <<pvars, avars, paging, race>>

ClientRecordsGet(status) ==
    /\ http.last.op = "idle"
    /\ http' = HetznerClient_zone_records_get(http, ZoneIdOf(ZB), status)
    /\ UNCHANGED <<pvars, avars, paging, race>>

ClientRecordDelete(record_id, status) ==
    /\ http.last.op = "idle"
    /\ http' = HetznerClient_zone_record_delete(http, ZoneIdOf(ZB), record_id, status)
    /\ UNCHANGED <<pvars, avars, paging, race>>

\* the caller takes the result or the exception
ClientReturn ==
    /\ http.last.op # "idle"
    /\ http' = [http EXCEPT !.last = NoRequest]
    /\ UNCHANGED <<pvars, avars, paging, race>>

NextClient ==
    \/ \E name \in Names, type \in Types, value \in {V1, V2}, ttl \in {0, 300},
          status \in Statuses : ClientRecordCreate(name, type, value, ttl, status)
    \/ \E status \in Statuses : ClientRecordsGet(status)
    \/ \E record_id \in {WireId(0), WireId(1)}, status \in Statuses :
          ClientRecordDelete(record_id, status)
    \/ ClientReturn

SpecClient == InitClient /\ [][NextClient]_vars

\* C34: every request of the record client maps the status to an outcome: 401
\* Unauthorized, 404 NotFound, any other status outside 2xx a generic failure,
\* and only 2xx returns; a creation sends the apex as '@', a listing gives it
\* back as '', so a name written comes back as it was written.
C34_StatusAndApex ==
    LET rq == http.last
    IN rq.op # "idle" =>
          /\ rq.status = 401 <=> rq.outcome = "HetznerClientUnauthorized"
          /\ rq.status = 404 <=> rq.outcome = "HetznerClientNotFound"
          /\ Success(rq.status) <=> rq.outcome = ""
          /\ rq.op = "zone_record_create" =>
                /\ rq.sent[1].name # ""
                /\ rq.outcome = "" =>
                      /\ http.records[Len(http.records)].name = rq.sent[1].name
                      /\ rq.sent[1].name =
                            (IF http.written[Len(http.written)] = "" THEN "@"
                             ELSE http.written[Len(http.written)])
          /\ (rq.op = "zone_records_get" /\ rq.outcome = "") =>
                /\ Len(rq.result) = Len(http.records)
                /\ \A k \in DOMAIN rq.result :
                      /\ rq.result[k].name = http.written[k]
                      /\ [rq.result[k] EXCEPT !.name = http.records[k].name] = http.records[k]

\* C35: starting from a zone with at most one RRSet per (apex-normalized name,
\* type), every sequence of rrset_upsert, rrset_delete, zone_record_create and
\* zone_record_delete calls leaves at most one RRSet per (apex-normalized
\* name, type).
C35_OneRRSetPerKey ==
    \A i \in DOMAIN rrsets : Addressed(rrsets, rrsets[i].name, rrsets[i].type) = {i}

\* C36: in every state reachable through populate and apply, a zone name with
\* an entry in the record cache has an entry in the name-to-id cache, and every
\* id in the name-to-id cache is a key of the metadata cache; no operation
\* removes an entry from the name-to-id cache or from the metadata cache.
C36_CachesConsistent ==
    /\ [](/\ DOMAIN _zone_records \subseteq DOMAIN _zone_name_to_id
          /\ \A zn \in DOMAIN _zone_name_to_id :
                _zone_name_to_id[zn] \in DOMAIN _zone_metadata)
    /\ [][/\ \A zn \in DOMAIN _zone_name_to_id :
                /\ zn \in DOMAIN _zone_name_to_id'
                /\ _zone_name_to_id'[zn] = _zone_name_to_id[zn]
          /\ \A id \in DOMAIN _zone_metadata :
                /\ id \in DOMAIN _zone_metadata'
                /\ _zone_metadata'[id] = _zone_metadata[id]]_vars

\* an apply has evicted its zone's records while another zone's stay cached,
\* and the ids of both are still known
C36_Witness ==
    /\ last.op = "apply"
    /\ last.error = ""
    /\ last.zone \in DOMAIN _zone_name_to_id
    /\ last.zone \notin DOMAIN _zone_records
    /\ \E zn \in DOMAIN _zone_records : zn # last.zone

\* C37: when dispatching a change raises during apply, the error reaches the
\* caller, no later change of the plan is dispatched and nothing is called
\* after the raising call, so the writes made before it stand; the zone's
\* entry in the record cache stays as it was before the apply, and a populate
\* of a zone with an entry lists nothing again and leaves the entry as it is.
C37_RaisedApplyKeepsCache ==
    [][ /\ (last'.op = "apply" /\ last'.error # "") =>
             /\ last'.error = fault.error
             /\ calls'[Len(calls')].op \in MutationOps
             /\ \A i \in DOMAIN calls' : calls'[i].chg <= calls'[Len(calls')].chg
             /\ Len(last'.plan) >= calls'[Len(calls')].chg
             /\ WritesMade(calls') = fault.skip + 1
             /\ last'.zone \in DOMAIN _zone_records =>
                   /\ last'.zone \in DOMAIN _zone_records'
                   /\ _zone_records'[last'.zone] = _zone_records[last'.zone]
        /\ (last'.op = "populate" /\ last'.zone \in DOMAIN _zone_records) =>
             /\ CallCount(calls', "zone_records_get") = 0
             /\ CallCount(calls', "zone_get") = 0
             /\ _zone_records' = _zone_records
             /\ last'.exists
             /\ last'.error = ""
      ]_vars

\* the second change of a plan has raised after the first one's write went
\* through, and the zone's records, cached by an earlier populate, are still
\* cached
C37_Witness ==
    /\ last.op = "apply"
    /\ last.error # ""
    /\ Len(last.plan) = 2
    /\ \E i \in DOMAIN calls : calls[i].chg = 1 /\ calls[i].op \in MutationOps
    /\ calls[Len(calls)].chg = 2
    /\ last.zone \in DOMAIN _zone_records
    /\ _zone_records[last.zone] # <<>>

\* the listing of the zone holding the RRSets L
FlatList(L) == zone_records_get("visible", zttl, L, "z1")

\* the positions of a listing whose record carries the id rid
Listed(list, rid) == { k \in DOMAIN list : list[k].id = rid }

\* C38: for every flat record that zone_records_get returns, handing its id to
\* zone_record_delete removes that record's value from its RRSet, also when the
\* value contains ':', so that the following zone_records_get returns the
\* previous list without that record.
C38_SyntheticIdRoundTrip ==
    (/\ alast.op = "zone_record_delete"
     /\ alast.result = "ok"
     /\ Listed(FlatList(alast.pre), alast.rid) # {}) =>
        \E k \in Listed(FlatList(alast.pre), alast.rid) :
           FlatList(rrsets) = RemoveAt(FlatList(alast.pre), k)

\* the values of an RRSet without the value v, in their order
Without(values, v) == LET keep(x) == x # v IN SelectSeq(values, keep)

\* C39: zone_record_delete of one value of a multi-value RRSet leaves every
\* other RRSet of the zone as it is, and leaves the target's name, type, TTL
\* and the order of its remaining values as they were; when the value is not
\* in the RRSet, the RRSet's value list is as it was.
C39_RecordDeleteFrame ==
    LET t == FirstWithId(alast.pre, partition(alast.rid).head)
        value == partition(alast.rid).tail
    IN (alast.op = "zone_record_delete" /\ alast.result = "ok" /\ t # 0) =>
          /\ Len(alast.pre[t].values) >= 2 =>
                /\ Len(rrsets) = Len(alast.pre)
                /\ \A i \in DOMAIN alast.pre : i # t => rrsets[i] = alast.pre[i]
                /\ rrsets[t] = [alast.pre[t] EXCEPT !.values = Without(@, value)]
          /\ (\A k \in DOMAIN alast.pre[t].values : alast.pre[t].values[k] # value) =>
                /\ Len(rrsets) = Len(alast.pre)
                /\ rrsets[t].values = alast.pre[t].values

====
